---------------------------- MODULE Spec2Model ----------------------------
(***************************************************************************)
(* A model of the helmfile execution core of terraform-provider-helmfile:  *)
(* the in-process (library) executor with its process-environment scoping, *)
(* the subprocess (binary) executor with its child environment and         *)
(* argument list, the result normalisation of both, and the diff           *)
(* reconciliation step markDiffOutputs.                                    *)
(***************************************************************************)
EXTENDS Naturals, Sequences, FiniteSets, TLC

VARIABLES
    env,    \* the process environment: a function from the present names to values
    g,      \* one record per goroutine running a LibraryExecutor operation
    b,      \* the last BinaryExecutor call: its options, command and result
    d,      \* the diffChecker handed to markDiffOutputs and the call's inputs
    files,  \* the file system: a function from the absolute paths present to contents
    w,      \* the last two prepareHelmfileFile calls on the working directory
    eks,    \* the ReleaseSet being constructed or deleted, with its kubeconfig
    dbg,    \* the last in-process Apply: its inputs and the output it returned
    cmp,    \* one options value as both executors hand it to the tool
    cap     \* an OutputCapture and the goroutines using it

vars == <<env, g, b, d, files, w, eks, dbg, cmp, cap>>

-----------------------------------------------------------------------------
(* Bounds of the model *)

\* goroutines that may run an executor operation in the one provider process
NumProcs == 2
\* most entries an environment_variables map holds
MaxOverride == 1
\* most keys the diffChecker reports as changed at once
MaxChanged == 2
\* most value overlays of a ReleaseSet
MaxValues == 2
MaxSecretLen == 9
MaxCaptured == 4

Procs == 1..NumProcs

-----------------------------------------------------------------------------
(* Go values *)

\* a Go string held in an interface{}
Str(s) == [type |-> "string", val |-> s]
\* a Go int held in an interface{} (what value.(string) rejects)
NonStr == [type |-> "int", val |-> "5"]

\* the error interface: nil, or a value of some dynamic type
NilErr == [type |-> "nil", code |-> 0]
IsNil(e) == e.type = "nil"

EmptyMap == [k \in {} |-> ""]

-----------------------------------------------------------------------------
(* The process environment: os.LookupEnv, os.Setenv, os.Unsetenv *)

LookupEnv(e, key) ==
    IF key \in DOMAIN e THEN [exists |-> TRUE, val |-> e[key]]
                        ELSE [exists |-> FALSE, val |-> ""]

Setenv(e, key, val) == [k \in DOMAIN e \cup {key} |-> IF k = key THEN val ELSE e[k]]

Unsetenv(e, key) == [k \in DOMAIN e \ {key} |-> e[k]]

\* the names the model's environment and override maps draw from
EnvKeys == {"AWS_PROFILE", "KUBECONFIG"}
ParentValues == {"", "parent_value"}
OverrideValues == {Str("value1"), Str("value2"), NonStr}

ParentEnvs == UNION {[S -> ParentValues] : S \in SUBSET EnvKeys}

OverrideMaps ==
    UNION {[S -> OverrideValues] : S \in {T \in SUBSET EnvKeys : Cardinality(T) <= MaxOverride}}


-----------------------------------------------------------------------------
(* What the external tool reports *)

\* helmfile's exit code for "diff found changes" under --detailed-exitcode
ChangesPendingCode == 2
ToolExitCodes == {1, ChangesPendingCode, 3}

LibraryOps == {"Apply", "Diff", "Template", "Destroy"}
BinaryOps == {"Apply", "Diff", "Template", "Destroy", "Build"}

\* why a call ended as it did (never seen by the executors: the ground truth
\* the claims about error kinds are read against)
Causes == {"ok", "changes", "business", "transport"}

\* helmfileApp.Apply/Diff/Template/Destroy: nil, or an error.  An error is
\* what the library hands back when the tool's work failed (business), when
\* the in-process call itself failed (transport), and, for Diff with
\* DetailedExitcode, when changes are pending.  The library reports its
\* failures as a plain error carrying code 1.
AppOutcomes(o, detailed) ==
    {[cause |-> "ok", err |-> NilErr]}
    \cup {[cause |-> "business", err |-> [type |-> "error", code |-> c]] :
             c \in ToolExitCodes \ {ChangesPendingCode}}
    \cup {[cause |-> "transport", err |-> [type |-> "error", code |-> 1]]}
    \cup (IF o = "Diff" /\ detailed
          THEN {[cause |-> "changes", err |-> [type |-> "error", code |-> ChangesPendingCode]]}
          ELSE {})

\* cmd.CombinedOutput(): nil on exit 0, *exec.ExitError on a non-zero exit,
\* *exec.Error when the binary cannot be started
CmdOutcomes(o, detailed) ==
    {[cause |-> "ok", err |-> NilErr]}
    \cup {[cause |-> IF o = "Diff" /\ detailed /\ c = ChangesPendingCode
                     THEN "changes" ELSE "business",
           err |-> [type |-> "*exec.ExitError", code |-> c]] : c \in ToolExitCodes}
    \cup {[cause |-> "transport", err |-> [type |-> "*exec.Error", code |-> 0]]}

-----------------------------------------------------------------------------
(* Result *)

NoResult == [isNil |-> TRUE, ExitCode |-> 0, Error |-> NilErr]
NoReturn == [result |-> NoResult, err |-> NilErr]

\* LibraryExecutor.Apply/Diff/Template/Destroy: the Result built from err
LibraryResult(err) ==
    IF ~IsNil(err)
    THEN [result |-> [isNil |-> FALSE, ExitCode |-> 1, Error |-> err], err |-> err]
    ELSE [result |-> [isNil |-> FALSE, ExitCode |-> 0, Error |-> NilErr], err |-> NilErr]

\* LibraryExecutor.Build: no Result, an error
LibraryBuildResult ==
    [result |-> NoResult, err |-> [type |-> "*errors.errorString", code |-> 0]]

\* BinaryExecutor.runCommand: the Result built from CombinedOutput's err
BinaryResult(err) ==
    [result |-> [isNil |-> FALSE,
                 ExitCode |-> IF err.type = "*exec.ExitError" THEN err.code ELSE 0,
                 Error |-> err],
     err |-> err]

-----------------------------------------------------------------------------
(* Environment Scoping: setEnvironmentVariables *)

awsEnvVars ==
    <<"AWS_PROFILE", "AWS_REGION", "AWS_DEFAULT_REGION", "AWS_ACCESS_KEY_ID",
      "AWS_SECRET_ACCESS_KEY", "AWS_SESSION_TOKEN", "AWS_CONFIG_FILE",
      "AWS_SHARED_CREDENTIALS_FILE", "HOME">>

\* for key, value := range envVars { completeEnvVars[key] = value }
Overlay(complete, envVars) ==
    [k \in DOMAIN complete \cup DOMAIN envVars |->
        IF k \in DOMAIN envVars THEN envVars[k] ELSE complete[k]]

\* what the set loop records of a key before writing it: its original value
\* when os.LookupEnv finds it, a mark for unsetting when it does not
SnapshotLookupEmptyIsAbsent(e, key) ==
    IF key \in DOMAIN e /\ e[key] # "" THEN [exists |-> TRUE, val |-> e[key]]
                                      ELSE [exists |-> FALSE, val |-> ""]

Snapshot(e, key) == LookupEnv(e, key)

\* a goroutine outside any executor call
Idle ==
    [pc |-> "idle", op |-> "none", envVars |-> EmptyMap, detailed |-> FALSE,
     idx |-> 0, completeEnvVars |-> EmptyMap, todo |-> {}, cur |-> "",
     originalValues |-> EmptyMap, keysToUnset |-> <<>>,
     ret |-> NoReturn, cause |-> "none", preEnv |-> EmptyMap]

\* no other goroutine is inside an executor call
Alone(p) == \A q \in Procs \ {p} : g[q].pc = "idle"

\* Apply/Diff/Template/Destroy is entered: setEnvironmentVariables(opts.EnvironmentVariables)
Begin(p, o, ev, dx) ==
    /\ g[p].pc = "idle"
    /\ g' = [g EXCEPT ![p] = [Idle EXCEPT !.pc = "copy", !.op = o, !.envVars = ev,
                                          !.detailed = dx, !.idx = 1, !.preEnv = env]]
    /\ UNCHANGED <<env, b, d, files, w, eks, dbg, cmp, cap>>

\* for _, key := range awsEnvVars: copy the parent's value when it exists
CopyAws(p) ==
    /\ g[p].pc = "copy"
    /\ g[p].idx <= Len(awsEnvVars)
    /\ LET key == awsEnvVars[g[p].idx]
           found == LookupEnv(env, key)
       IN g' = [g EXCEPT ![p].idx = @ + 1,
                         ![p].completeEnvVars =
                             IF found.exists
                             THEN [k \in DOMAIN @ \cup {key} |->
                                      IF k = key THEN Str(found.val) ELSE @[k]]
                             ELSE @]
    /\ UNCHANGED <<env, b, d, files, w, eks, dbg, cmp, cap>>

\* the configured variables are laid over the copied ones
OverlayConfigured(p) ==
    /\ g[p].pc = "copy"
    /\ g[p].idx > Len(awsEnvVars)
    /\ LET complete == Overlay(g[p].completeEnvVars, g[p].envVars)
       IN g' = [g EXCEPT ![p].pc = "set", ![p].completeEnvVars = complete,
                         ![p].todo = DOMAIN complete]
    /\ UNCHANGED <<env, b, d, files, w, eks, dbg, cmp, cap>>

\* for key, value := range completeEnvVars: the original value is stored, or
\* the key is marked for unsetting (a Go map is ranged over in any order)
SnapshotKey(p) ==
    /\ g[p].pc = "set"
    /\ \E key \in g[p].todo :
          LET orig == Snapshot(env, key)
          IN g' = [g EXCEPT ![p].pc = "setenv", ![p].cur = key, ![p].todo = @ \ {key},
                            ![p].originalValues =
                                IF orig.exists
                                THEN [k \in DOMAIN @ \cup {key} |->
                                         IF k = key THEN orig.val ELSE @[k]]
                                ELSE @,
                            ![p].keysToUnset =
                                IF orig.exists THEN @ ELSE Append(@, key)]
    /\ UNCHANGED <<env, b, d, files, w, eks, dbg, cmp, cap>>

\* if strValue, ok := value.(string); ok { os.Setenv(key, strValue) }
SetKey(p) ==
    /\ g[p].pc = "setenv"
    /\ LET value == g[p].completeEnvVars[g[p].cur]
       IN env' = IF value.type = "string" THEN Setenv(env, g[p].cur, value.val) ELSE env
    /\ g' = [g EXCEPT ![p].pc = IF g[p].todo = {} THEN "call" ELSE "set", ![p].cur = ""]
    /\ UNCHANGED <<b, d, files, w, eks, dbg, cmp, cap>>

\* an empty completeEnvVars: the set loop has nothing to do
SetNothing(p) ==
    /\ g[p].pc = "set"
    /\ g[p].todo = {}
    /\ g' = [g EXCEPT ![p].pc = "call"]
    /\ UNCHANGED <<env, b, d, files, w, eks, dbg, cmp, cap>>

\* helmfileApp.<Op>(config) returns; the Result is built; the deferred
\* restoreEnv starts
ToolReturns(p) ==
    /\ g[p].pc = "call"
    /\ \E out \in AppOutcomes(g[p].op, g[p].detailed) :
          g' = [g EXCEPT ![p].pc = "restore", ![p].ret = LibraryResult(out.err),
                         ![p].cause = out.cause,
                         ![p].todo = DOMAIN g[p].originalValues]
    /\ UNCHANGED <<env, b, d, files, w, eks, dbg, cmp, cap>>

\* for key, value := range originalValues { os.Setenv(key, value) }
RestoreKey(p) ==
    /\ g[p].pc = "restore"
    /\ \E key \in g[p].todo :
          /\ env' = Setenv(env, key, g[p].originalValues[key])
          /\ g' = [g EXCEPT ![p].todo = @ \ {key}]
    /\ UNCHANGED <<b, d, files, w, eks, dbg, cmp, cap>>

RestoreDone(p) ==
    /\ g[p].pc = "restore"
    /\ g[p].todo = {}
    /\ g' = [g EXCEPT ![p].pc = "unset", ![p].idx = 1]
    /\ UNCHANGED <<env, b, d, files, w, eks, dbg, cmp, cap>>

\* for _, key := range keysToUnset { os.Unsetenv(key) }
UnsetKey(p) ==
    /\ g[p].pc = "unset"
    /\ g[p].idx <= Len(g[p].keysToUnset)
    /\ env' = Unsetenv(env, g[p].keysToUnset[g[p].idx])
    /\ g' = [g EXCEPT ![p].idx = @ + 1]
    /\ UNCHANGED <<b, d, files, w, eks, dbg, cmp, cap>>

\* restoreEnv has run: the operation returns (result, err) to its caller
Returned(p) ==
    /\ g[p].pc = "unset"
    /\ g[p].idx > Len(g[p].keysToUnset)
    /\ g' = [g EXCEPT ![p].pc = "done", ![p].idx = 0]
    /\ UNCHANGED <<env, b, d, files, w, eks, dbg, cmp, cap>>

\* LibraryExecutor.Build: not implemented, the environment is not touched
LibraryBuild(p) ==
    /\ g[p].pc = "idle"
    /\ g' = [g EXCEPT ![p] = [Idle EXCEPT !.pc = "done", !.op = "Build",
                                          !.ret = LibraryBuildResult,
                                          !.cause = "transport", !.preEnv = env]]
    /\ UNCHANGED <<env, b, d, files, w, eks, dbg, cmp, cap>>

\* the caller has consumed the result
Forget(p) ==
    /\ g[p].pc = "done"
    /\ g' = [g EXCEPT ![p] = Idle]
    /\ UNCHANGED <<env, b, d, files, w, eks, dbg, cmp, cap>>

LibraryRun(p) ==
    \/ CopyAws(p)
    \/ OverlayConfigured(p)
    \/ SnapshotKey(p)
    \/ SetKey(p)
    \/ SetNothing(p)
    \/ ToolReturns(p)
    \/ RestoreKey(p)
    \/ RestoreDone(p)
    \/ UnsetKey(p)
    \/ Returned(p)

LibraryStep(p) ==
    \/ LibraryRun(p)
    \/ Forget(p)

LibraryBeginWith(p, ops, maps, dxs) ==
    \E o \in ops, ev \in maps, dx \in dxs :
        /\ (dx => o = "Diff")
        /\ Begin(p, o, ev, dx)

LibraryBegin(p) == LibraryBeginWith(p, LibraryOps, OverrideMaps, BOOLEAN)


-----------------------------------------------------------------------------
(* Subprocess variant: options, argument list, child environment *)

\* fmt.Sprintf("%s", v) and fmt.Sprintf("%v", v) of an interface{} value
FmtS(v) == IF v.type = "string" THEN v.val ELSE "%!s(" \o v.type \o "=" \o v.val \o ")"
FmtV(v) == v.val

Digits == <<"0", "1", "2", "3", "4", "5", "6", "7", "8", "9">>

RECURSIVE Itoa(_)
\* strconv.Itoa of a non-negative int
Itoa(n) == IF n < 10 THEN Digits[n + 1] ELSE Itoa(n \div 10) \o Digits[(n % 10) + 1]

RECURSIVE RangeMap(_, _)
\* for k, v := range m: the entries of a Go map, one after the other
RangeMap(m, keys) ==
    IF keys = {} THEN <<>>
    ELSE LET k == CHOOSE x \in keys : TRUE
         IN <<[key |-> k, val |-> m[k]]>> \o RangeMap(m, keys \ {k})

RECURSIVE Flatten(_)
Flatten(ss) == IF ss = <<>> THEN <<>> ELSE Head(ss) \o Flatten(Tail(ss))

\* the credential paths a configuration may name
KubeconfigPaths == {"", "/path/to/kubeconfig"}

\* environment_variables as the subprocess variant formats them: strings
StringOverrideMaps ==
    {m \in OverrideMaps : \A k \in DOMAIN m : m[k].type = "string"}

\* options with every field at its zero value, and with every field set
ZeroOptions ==
    [FileOrDir |-> "", HelmBinary |-> "", HelmfileBinary |-> "", Environment |-> "",
     Selector |-> EmptyMap, Selectors |-> <<>>, ValuesFiles |-> <<>>,
     Kubeconfig |-> "", EnvironmentVariables |-> EmptyMap,
     Concurrency |-> 0, SuppressSecrets |-> FALSE, SkipDiffOnInstall |-> FALSE,
     ReleasesValues |-> EmptyMap, DetailedExitcode |-> FALSE, Context |-> 0,
     IncludeCRDs |-> FALSE, OutputDir |-> "", OutputDirTemplate |-> "",
     EmbedValues |-> FALSE]

FullOptions ==
    [FileOrDir |-> "helmfile-0a1b.yaml", HelmBinary |-> "helm", HelmfileBinary |-> "helmfile",
     Environment |-> "default",
     Selector |-> [k \in {"tier"} |-> Str("frontend")], Selectors |-> <<Str("app=web")>>,
     ValuesFiles |-> <<Str("/w/temp.values-1.yaml"), Str("/w/temp.values-2.yaml")>>,
     Kubeconfig |-> "", EnvironmentVariables |-> EmptyMap,
     Concurrency |-> 12, SuppressSecrets |-> TRUE, SkipDiffOnInstall |-> TRUE,
     ReleasesValues |-> [k \in {"myapp.replicas"} |-> Str("3")],
     DetailedExitcode |-> TRUE, Context |-> 3,
     IncludeCRDs |-> TRUE, OutputDir |-> "out", OutputDirTemplate |-> "{{ .Release.Name }}",
     EmbedValues |-> TRUE]

DirectOptions ==
    {[s EXCEPT !.Kubeconfig = kc, !.EnvironmentVariables = ev] :
        s \in {ZeroOptions, FullOptions}, kc \in KubeconfigPaths, ev \in StringOverrideMaps}

\* buildBaseArgs
buildBaseArgsWithKubeconfigFlag(opts) ==
    <<"--no-color">>
    \o (IF opts.Kubeconfig # "" THEN <<"--kubeconfig", opts.Kubeconfig>> ELSE <<>>)

buildBaseArgs(opts) ==
    <<"--no-color">>
    \o (IF opts.FileOrDir # "" THEN <<"--file", opts.FileOrDir>> ELSE <<>>)
    \o (IF opts.HelmBinary # "" THEN <<"--helm-binary", opts.HelmBinary>> ELSE <<>>)
    \o (IF opts.Environment # "" THEN <<"--environment", opts.Environment>> ELSE <<>>)
    \o Flatten([i \in 1..Cardinality(DOMAIN opts.Selector) |->
                  LET e == RangeMap(opts.Selector, DOMAIN opts.Selector)[i]
                  IN <<"--selector", e.key \o "=" \o FmtS(e.val)>>])
    \o Flatten([i \in 1..Len(opts.Selectors) |-> <<"--selector", FmtS(opts.Selectors[i])>>])
    \o Flatten([i \in 1..Len(opts.ValuesFiles) |->
                  <<"--state-values-file", FmtV(opts.ValuesFiles[i])>>])

ConcurrencyArgs(opts) ==
    IF opts.Concurrency > 0 THEN <<"--concurrency", Itoa(opts.Concurrency)>> ELSE <<>>

SetArgs(opts) ==
    Flatten([i \in 1..Cardinality(DOMAIN opts.ReleasesValues) |->
               LET e == RangeMap(opts.ReleasesValues, DOMAIN opts.ReleasesValues)[i]
               IN <<"--set", e.key \o "=" \o FmtS(e.val)>>])

\* BinaryExecutor.Apply/Diff/Template/Destroy/Build: the argument list
BinaryArgs(o, opts) ==
    <<CASE o = "Apply" -> "apply" [] o = "Diff" -> "diff" [] o = "Template" -> "template"
        [] o = "Destroy" -> "destroy" [] OTHER -> "build">>
    \o buildBaseArgs(opts)
    \o CASE o = "Apply" ->
              ConcurrencyArgs(opts)
              \o (IF opts.SuppressSecrets THEN <<"--suppress-secrets">> ELSE <<>>)
              \o (IF opts.SkipDiffOnInstall THEN <<"--skip-diff-on-install">> ELSE <<>>)
              \o SetArgs(opts)
         [] o = "Diff" ->
              ConcurrencyArgs(opts)
              \o (IF opts.DetailedExitcode THEN <<"--detailed-exitcode">> ELSE <<>>)
              \o (IF opts.SuppressSecrets THEN <<"--suppress-secrets">> ELSE <<>>)
              \o (IF opts.Context > 0 THEN <<"--context", Itoa(opts.Context)>> ELSE <<>>)
              \o SetArgs(opts)
         [] o = "Template" ->
              ConcurrencyArgs(opts)
              \o (IF opts.IncludeCRDs THEN <<"--include-crds">> ELSE <<>>)
              \o (IF opts.OutputDir # "" THEN <<"--output-dir", opts.OutputDir>> ELSE <<>>)
              \o (IF opts.OutputDirTemplate # ""
                  THEN <<"--output-dir-template", opts.OutputDirTemplate>> ELSE <<>>)
         [] o = "Destroy" -> ConcurrencyArgs(opts)
         [] OTHER -> (IF opts.EmbedValues THEN <<"--embed-values">> ELSE <<>>)

\* os.Environ(): one "key=value" entry per variable
Environ(e) == RangeMap(e, DOMAIN e)

\* readEnvironmentVariables(envVars, exclude): one entry per variable of the
\* map other than exclude
readEnvironmentVariables(envVars, exclude) ==
    LET keep == DOMAIN envVars \ {exclude}
        es == RangeMap(envVars, keep)
    IN [i \in 1..Len(es) |-> [key |-> es[i].key, val |-> FmtS(es[i].val)]]

\* runCommand: cmd.Env
CommandEnvOverlayFirst(parent, opts) ==
    readEnvironmentVariables(opts.EnvironmentVariables, "KUBECONFIG")
    \o (IF opts.Kubeconfig # "" THEN <<[key |-> "KUBECONFIG", val |-> opts.Kubeconfig]>> ELSE <<>>)
    \o Environ(parent)

CommandEnv(parent, opts) ==
    Environ(parent)
    \o readEnvironmentVariables(opts.EnvironmentVariables, "KUBECONFIG")
    \o (IF opts.Kubeconfig # "" THEN <<[key |-> "KUBECONFIG", val |-> opts.Kubeconfig]>> ELSE <<>>)

\* what the child sees of a cmd.Env with a key given twice: the last entry
EffectiveEnv(entries) ==
    LET keys == {entries[i].key : i \in 1..Len(entries)}
        last(k) == CHOOSE i \in 1..Len(entries) :
                      /\ entries[i].key = k
                      /\ \A j \in 1..Len(entries) : entries[j].key = k => j <= i
    IN [k \in keys |-> entries[last(k)].val]

-----------------------------------------------------------------------------
(* From a ReleaseSet to options *)

ValidationErr == [type |-> "validation", code |-> 0]

\* a ReleaseSet as the resource hands it over
ReleaseSetOf(s, kc, ev) ==
    [Kubeconfig |-> kc, EnvironmentVariables |-> ev, Environment |-> s.Environment,
     Selector |-> s.Selector, Selectors |-> s.Selectors, ValuesFiles |-> s.ValuesFiles,
     HelmBin |-> s.HelmBinary, Bin |-> s.HelmfileBinary,
     Concurrency |-> s.Concurrency, ReleasesValues |-> s.ReleasesValues]

ReleaseSets ==
    {ReleaseSetOf(s, kc, ev) :
        s \in {ZeroOptions, FullOptions}, kc \in KubeconfigPaths, ev \in StringOverrideMaps}

NoReleaseSet == ReleaseSetOf(ZeroOptions, "", EmptyMap)

\* the manifest path prepareHelmfileFile returned
TmpFile == "helmfile-0a1b.yaml"

\* getKubeconfig: the explicit path, or KUBECONFIG of environment_variables;
\* both at once is refused
getKubeconfig(fs) ==
    IF "KUBECONFIG" \in DOMAIN fs.EnvironmentVariables
    THEN IF fs.Kubeconfig # ""
         THEN [isNil |-> TRUE, path |-> "", err |-> ValidationErr]
         ELSE [isNil |-> FALSE, path |-> FmtS(fs.EnvironmentVariables["KUBECONFIG"]),
               err |-> NilErr]
    ELSE IF fs.Kubeconfig # ""
         THEN [isNil |-> FALSE, path |-> fs.Kubeconfig, err |-> NilErr]
         ELSE [isNil |-> TRUE, path |-> "", err |-> NilErr]

\* buildBaseOptions: kubeconfig, _ := getKubeconfig(fs)
buildBaseOptions(fs, tmpFile) ==
    LET kubeconfig == getKubeconfig(fs)
    IN [ZeroOptions EXCEPT
          !.FileOrDir = tmpFile,
          !.Kubeconfig = IF kubeconfig.isNil THEN "" ELSE kubeconfig.path,
          !.Environment = fs.Environment, !.Selector = fs.Selector,
          !.Selectors = fs.Selectors, !.ValuesFiles = fs.ValuesFiles,
          !.EnvironmentVariables = fs.EnvironmentVariables,
          !.HelmBinary = fs.HelmBin, !.HelmfileBinary = fs.Bin]

\* buildApplyOptions, buildDiffOptions, buildTemplateOptions, buildDestroyOptions
buildOptions(o, fs, tmpFile) ==
    LET base == buildBaseOptions(fs, tmpFile)
    IN CASE o = "Apply" ->
              [base EXCEPT !.Concurrency = fs.Concurrency,
                           !.ReleasesValues = fs.ReleasesValues,
                           !.SuppressSecrets = TRUE, !.SkipDiffOnInstall = TRUE]
         [] o = "Diff" ->
              [base EXCEPT !.Concurrency = fs.Concurrency,
                           !.ReleasesValues = fs.ReleasesValues,
                           !.DetailedExitcode = TRUE, !.SuppressSecrets = TRUE,
                           !.Context = 3]
         [] o = "Template" ->
              [base EXCEPT !.Concurrency = fs.Concurrency, !.IncludeCRDs = TRUE]
         [] OTHER -> [base EXCEPT !.Concurrency = fs.Concurrency]

-----------------------------------------------------------------------------
(* Subprocess variant: one call *)

NoCall ==
    [called |-> FALSE, op |-> "none", fromReleaseSet |-> FALSE, fs |-> NoReleaseSet,
     opts |-> ZeroOptions, parent |-> EmptyMap, args |-> <<>>, cmdEnv |-> <<>>,
     invoked |-> FALSE, ret |-> NoReturn, cause |-> "none"]

\* BinaryExecutor.<Op>(ctx, opts): the arguments are built, runCommand builds
\* cmd.Env from the environment of this moment, runs the tool and returns
BinaryCall(o, opts, fromFs, fs) ==
    /\ ~b.called
    /\ \E out \in CmdOutcomes(o, opts.DetailedExitcode) :
          b' = [called |-> TRUE, op |-> o, fromReleaseSet |-> fromFs, fs |-> fs,
                opts |-> opts, parent |-> env,
                args |-> BinaryArgs(o, opts), cmdEnv |-> CommandEnv(env, opts),
                invoked |-> TRUE, ret |-> BinaryResult(out.err), cause |-> out.cause]
    /\ UNCHANGED <<env, g, d, files, w, eks, dbg, cmp, cap>>

\* an executor call with options of the caller's own
BinaryDirect ==
    \E o \in BinaryOps, opts \in DirectOptions : BinaryCall(o, opts, FALSE, NoReleaseSet)

\* an executor call with the options build<Op>Options derives from a ReleaseSet
BinaryFromReleaseSet ==
    \E o \in BinaryOps \ {"Build"}, fs \in ReleaseSets :
        BinaryCall(o, buildOptions(o, fs, TmpFile), TRUE, fs)

\* the caller has consumed the result
BinaryForget ==
    /\ b.called
    /\ b' = NoCall
    /\ UNCHANGED <<env, g, d, files, w, eks, dbg, cmp, cap>>


-----------------------------------------------------------------------------
(* Diff Reconciliation Engine: markDiffOutputs *)

KeyDiffOutput == "diff_output"
KeyApplyOutput == "apply_output"

\* the input keys resourceReleaseSetDiff and resourceHelmfileReleaseDiff pass
releaseSetInputKeys ==
    <<"KeyValues", "KeyValuesFiles", "KeyContent", "KeyPath", "KeyWorkingDirectory",
      "KeyEnvironment", "KeyEnvironmentVariables", "KeyBin", "KeyHelmBin",
      "KeySelector", "KeySelectors", "KeyKubeconfig">>

releaseInputKeys ==
    <<"KeyValues", "KeyChart", "KeyVersion", "KeyWorkingDirectory",
      "KeyKubeconfig", "KeyKubecontext", "KeyBin", "KeyHelmBin",
      "KeyNamespace", "KeyName">>

InputKeyLists ==
    {releaseSetInputKeys, releaseInputKeys,
     <<"KeyValues", "KeyContent", "KeyKubeconfig">>, <<"KeyValues", "KeyContent">>}

Range(q) == {q[i] : i \in 1..Len(q)}

\* every field name a resource may report as changed
FieldNames == UNION {Range(q) : q \in InputKeyLists} \cup {"some_other_key"}

ChangeSets == {c \in SUBSET FieldNames : Cardinality(c) <= MaxChanged}
DiffTexts == {"", "some diff output"}

\* diffChecker.HasChange and diffChecker.SetNewComputed
HasChange(m, key) == key \in m.changes
SetNewComputed(m, key) == [m EXCEPT !.newComputed = @ \cup {key}]

NewDiffChecker(changedKeys) == [changes |-> changedKeys, newComputed |-> {}]

\* markDiffOutputs(d, diff, inputKeys)
markDiffOutputsIgnoringInputs(m, diff, inputKeys) ==
    IF diff # "" THEN SetNewComputed(m, KeyApplyOutput) ELSE m

markDiffOutputsFixedKeys(m, diff, inputKeys) ==
    LET inputsChanged ==
            \E i \in 1..Len(releaseSetInputKeys) : HasChange(m, releaseSetInputKeys[i])
    IN IF inputsChanged
       THEN SetNewComputed(SetNewComputed(m, KeyDiffOutput), KeyApplyOutput)
       ELSE IF diff # ""
            THEN SetNewComputed(m, KeyApplyOutput)
            ELSE m

markDiffOutputs(m, diff, inputKeys) ==
    LET inputsChanged == \E i \in 1..Len(inputKeys) : HasChange(m, inputKeys[i])
    IN IF inputsChanged
       THEN SetNewComputed(SetNewComputed(m, KeyDiffOutput), KeyApplyOutput)
       ELSE IF diff # ""
            THEN SetNewComputed(m, KeyApplyOutput)
            ELSE m

NoDiff == [ran |-> FALSE, checker |-> NewDiffChecker({}), diff |-> "", inputKeys |-> <<>>,
           changed |-> {}]

\* a read/diff pass of a resource ends with markDiffOutputs
Reconcile(changedKeys, diff, inputKeys) ==
    /\ ~d.ran
    /\ d' = [ran |-> TRUE, diff |-> diff, inputKeys |-> inputKeys, changed |-> changedKeys,
             checker |-> markDiffOutputs(NewDiffChecker(changedKeys), diff, inputKeys)]
    /\ UNCHANGED <<env, g, b, files, w, eks, dbg, cmp, cap>>

ReconcileAny ==
    \E c \in ChangeSets, t \in DiffTexts, ks \in InputKeyLists : Reconcile(c, t, ks)

-----------------------------------------------------------------------------
(* Workspace materialization: prepareHelmfileFile *)

\* the working directory of the provider process
Cwd == "/cwd"

\* ReleaseSet.WorkingDirectory: unset, relative, absolute
WorkingDirectories == {"", "work", "/srv/work"}

\* filepath.IsAbs of a working directory
IsAbs(dir) == dir = "/srv/work"

\* filepath.Join(dir, name): an empty element is dropped
Join(dir, name) == IF dir = "" THEN name ELSE dir \o "/" \o name

\* filepath.Abs of a path joined under dir: as it is when dir is absolute,
\* under the process's working directory otherwise
Abs(dir, path) == IF IsAbs(dir) THEN path ELSE Cwd \o "/" \o path

Sha256HexOfNothing(bs) == "sha256[]"

\* fmt.Sprintf("%x", sha256 of bs): distinct contents have distinct digests
Sha256Hex(bs) == "sha256[" \o bs \o "]"

\* ioutil.WriteFile: the file is created or replaced
WriteFile(fsys, path, bs) ==
    [x \in DOMAIN fsys \cup {path} |-> IF x = path THEN bs ELSE fsys[x]]

ManifestContents == {"a: 1", "releases: []"}
OverlayValues == {Str("a: 1"), Str("b: 2")}
ExistingValuesFiles == {<<>>, <<Str("base.yaml")>>}

\* sequences of at most n elements of S
SeqsUpTo(S, n) == UNION {[1..m -> S] : m \in 0..n}

\* a ReleaseSet with the fields prepareHelmfileFile reads
WorkReleaseSet(content, tmpl, dir, values, valuesFiles) ==
    [Content |-> content, EnableGoTemplate |-> tmpl, WorkingDirectory |-> dir,
     Values |-> values]
    @@ [NoReleaseSet EXCEPT !.ValuesFiles = valuesFiles]

WorkReleaseSets(dir) ==
    {WorkReleaseSet(c, t, dir, vs, vf) :
        c \in ManifestContents, t \in BOOLEAN,
        vs \in SeqsUpTo(OverlayValues, MaxValues), vf \in ExistingValuesFiles}

IOErr == [type |-> "*fs.PathError", code |-> 0]

\* where a prepareHelmfileFile call fails: nowhere, at os.MkdirAll, at the
\* write of the manifest, or at the write of the i-th values file
FailPoints(fs) ==
    {"none", "manifest"}
    \cup (IF fs.WorkingDirectory # "" THEN {"mkdir"} ELSE {})
    \cup {Itoa(i) : i \in 1..Len(fs.Values)}

ManifestNameByOverlayCount(fs) ==
    "helmfile-" \o Sha256Hex(fs.Content \o Itoa(Len(fs.Values)))
    \o (IF fs.EnableGoTemplate THEN ".yaml.gotmpl" ELSE ".yaml")

\* the manifest file name and path
ManifestName(fs) ==
    "helmfile-" \o Sha256Hex(fs.Content)
    \o (IF fs.EnableGoTemplate THEN ".yaml.gotmpl" ELSE ".yaml")
ManifestPath(fs) == Join(fs.WorkingDirectory, ManifestName(fs))

\* the bytes and the absolute path of one values file
ValuesBytes(vs) == FmtS(vs)
ValuesPath(fs, vs) ==
    Abs(fs.WorkingDirectory,
        Join(fs.WorkingDirectory, "temp.values-" \o Sha256Hex(ValuesBytes(vs)) \o ".yaml"))

RECURSIVE WriteAll(_, _)
\* the writes of a sequence of [path, bytes] applied one after the other
WriteAll(fsys, ws) ==
    IF ws = <<>> THEN fsys
    ELSE WriteAll(WriteFile(fsys, Head(ws).path, Head(ws).bytes), Tail(ws))

\* fs.Values is kept
prepareHelmfileFileKeepingValues(fs, fsys, fail) ==
    LET n == Len(fs.Values)
        manifest == [path |-> Abs(fs.WorkingDirectory, ManifestPath(fs)),
                     bytes |-> fs.Content, kind |-> "manifest"]
        values == [i \in 1..n |-> [path |-> ValuesPath(fs, fs.Values[i]),
                                   bytes |-> ValuesBytes(fs.Values[i]), kind |-> "values"]]
        done == IF fail \in {"mkdir", "manifest"} THEN <<>>
                ELSE <<manifest>> \o
                     SubSeq(values, 1, IF fail = "none" THEN n
                                       ELSE (CHOOSE i \in 1..n : Itoa(i) = fail) - 1)
        tempValuesPaths == [i \in 1..n |-> Str(values[i].path)]
    IN [path |-> IF fail = "none" THEN ManifestPath(fs) ELSE "",
        err |-> IF fail = "none" THEN NilErr ELSE IOErr,
        writes |-> done,
        files |-> WriteAll(fsys, done),
        fs |-> IF fail = "none"
               THEN [fs EXCEPT !.ValuesFiles = IF n > 0 THEN tempValuesPaths \o fs.ValuesFiles
                                               ELSE fs.ValuesFiles]
               ELSE fs]

\* tempValuesPaths in existing-first order
prepareHelmfileFileExistingFirst(fs, fsys, fail) ==
    LET n == Len(fs.Values)
        manifest == [path |-> Abs(fs.WorkingDirectory, ManifestPath(fs)),
                     bytes |-> fs.Content, kind |-> "manifest"]
        values == [i \in 1..n |-> [path |-> ValuesPath(fs, fs.Values[i]),
                                   bytes |-> ValuesBytes(fs.Values[i]), kind |-> "values"]]
        done == IF fail \in {"mkdir", "manifest"} THEN <<>>
                ELSE <<manifest>> \o
                     SubSeq(values, 1, IF fail = "none" THEN n
                                       ELSE (CHOOSE i \in 1..n : Itoa(i) = fail) - 1)
        tempValuesPaths == [i \in 1..n |-> Str(values[i].path)]
    IN [path |-> IF fail = "none" THEN ManifestPath(fs) ELSE "",
        err |-> IF fail = "none" THEN NilErr ELSE IOErr,
        writes |-> done,
        files |-> WriteAll(fsys, done),
        fs |-> IF fail = "none"
               THEN [fs EXCEPT !.ValuesFiles = IF n > 0 THEN fs.ValuesFiles \o tempValuesPaths
                                               ELSE fs.ValuesFiles,
                               !.Values = <<>>]
               ELSE fs]

\* prepareHelmfileFile(fs): the manifest is written under a name derived
\* from its content, each values blob under a name derived from its own, the
\* new paths are put before fs.ValuesFiles and fs.Values is cleared. A write
\* that fails leaves its file as it was.
prepareHelmfileFile(fs, fsys, fail) ==
    LET n == Len(fs.Values)
        manifest == [path |-> Abs(fs.WorkingDirectory, ManifestPath(fs)),
                     bytes |-> fs.Content, kind |-> "manifest"]
        values == [i \in 1..n |-> [path |-> ValuesPath(fs, fs.Values[i]),
                                   bytes |-> ValuesBytes(fs.Values[i]), kind |-> "values"]]
        done == IF fail \in {"mkdir", "manifest"} THEN <<>>
                ELSE <<manifest>> \o
                     SubSeq(values, 1, IF fail = "none" THEN n
                                       ELSE (CHOOSE i \in 1..n : Itoa(i) = fail) - 1)
        tempValuesPaths == [i \in 1..n |-> Str(values[i].path)]
    IN [path |-> IF fail = "none" THEN ManifestPath(fs) ELSE "",
        err |-> IF fail = "none" THEN NilErr ELSE IOErr,
        writes |-> done,
        files |-> WriteAll(fsys, done),
        fs |-> IF fail = "none"
               THEN [fs EXCEPT !.ValuesFiles = IF n > 0 THEN tempValuesPaths \o fs.ValuesFiles
                                               ELSE fs.ValuesFiles,
                               !.Values = <<>>]
               ELSE fs]

\* a call as it is remembered: its argument, where it failed, what it found
\* on disk and what it returned
NoPrepare ==
    [called |-> FALSE, fs |-> WorkReleaseSet("", FALSE, "", <<>>, <<>>), fail |-> "none",
     before |-> EmptyMap, path |-> "", err |-> NilErr, writes |-> <<>>,
     out |-> WorkReleaseSet("", FALSE, "", <<>>, <<>>)]

NoWork == [dir |-> "", prev |-> NoPrepare, last |-> NoPrepare]

\* one call of prepareHelmfileFile on a ReleaseSet of the working directory;
\* after a failed call the operation is retried on the same ReleaseSet
Prepare(fs, fail) ==
    /\ (w.last.called /\ ~IsNil(w.last.err)) => fs = w.last.fs
    /\ LET r == prepareHelmfileFile(fs, files, fail)
       IN /\ files' = r.files
          /\ w' = [w EXCEPT !.prev = [w.last EXCEPT !.before = EmptyMap],
                            !.last = [called |-> TRUE, fs |-> fs, fail |-> fail,
                                      before |-> files, path |-> r.path, err |-> r.err,
                                      writes |-> r.writes, out |-> r.fs]]
    /\ UNCHANGED <<env, g, b, d, eks, dbg, cmp, cap>>

PrepareAny ==
    /\ ~w.prev.called
    /\ \E fs \in WorkReleaseSets(w.dir) : \E fail \in FailPoints(fs) : Prepare(fs, fail)

\* a further call of prepareHelmfileFile on the ReleaseSet the call before
\* was given, as that call left it
PrepareAgain ==
    /\ ~w.prev.called
    /\ w.last.called
    /\ \E fail \in FailPoints(w.last.out) : Prepare(w.last.out, fail)

\* the working directory is emptied and the calls forgotten
FreshWorkspace ==
    /\ w.last.called
    /\ files' = EmptyMap
    /\ w' = [w EXCEPT !.prev = NoPrepare, !.last = NoPrepare]
    /\ UNCHANGED <<env, g, b, d, eks, dbg, cmp, cap>>

-----------------------------------------------------------------------------
(* EKS kubeconfig: validation, discovery, generation, temporary file, cleanup *)

\* the resource data NewReleaseSet reads
ResourceData ==
    [kubeconfig : KubeconfigPaths,
     eks_cluster_name : {"", "my-cluster"},
     eks_cluster_region : {"", "us-west-2"},
     aws_region : {"", "us-east-1"},
     eks_cluster_endpoint : {"", "https://example.eks.amazonaws.com"},
     eks_cluster_ca : {"", "LS0tLS1CRUdJTi0tLS0t"},
     aws_profile : {"", "my-profile"},
     working_directory : {"", "work"}]

ErrMustProvideOne ==
    [type |-> "either 'kubeconfig' or 'eks_cluster_name' must be provided", code |-> 0]
ErrRegionRequired ==
    [type |-> "either eks_cluster_region or aws_region must be provided", code |-> 0]
ErrProvidedTogether ==
    [type |-> "eks_cluster_endpoint and eks_cluster_ca must be provided together", code |-> 0]

\* validateKubeconfigOrEKS
validateKubeconfigOrEKS(rd) ==
    IF rd.kubeconfig = "" /\ rd.eks_cluster_name = "" THEN ErrMustProvideOne ELSE NilErr

validateEKSConfigurationIgnoringKubeconfig(rd) ==
    IF rd.eks_cluster_name = "" THEN ErrMustProvideOne
    ELSE IF rd.eks_cluster_region = "" /\ rd.aws_region = "" THEN ErrRegionRequired
    ELSE IF (rd.eks_cluster_endpoint # "") # (rd.eks_cluster_ca # "") THEN ErrProvidedTogether
    ELSE NilErr

validateEKSConfigurationNoPairCheck(rd) ==
    IF rd.kubeconfig # "" THEN NilErr
    ELSE IF rd.eks_cluster_name = "" THEN ErrMustProvideOne
    ELSE IF rd.eks_cluster_region = "" /\ rd.aws_region = "" THEN ErrRegionRequired
    ELSE NilErr

\* validateEKSConfiguration: a kubeconfig takes precedence; without one a
\* cluster name is needed, with a region, and endpoint and CA both or neither
validateEKSConfiguration(rd) ==
    IF rd.kubeconfig # "" THEN NilErr
    ELSE IF rd.eks_cluster_name = "" THEN ErrMustProvideOne
    ELSE IF rd.eks_cluster_region = "" /\ rd.aws_region = "" THEN ErrRegionRequired
    ELSE IF (rd.eks_cluster_endpoint # "") # (rd.eks_cluster_ca # "") THEN ErrProvidedTogether
    ELSE NilErr

getEKSRegionDefaultFirst(rd) ==
    IF rd.aws_region # "" THEN rd.aws_region ELSE rd.eks_cluster_region

\* getEKSRegion: eks_cluster_region before aws_region
getEKSRegion(rd) ==
    IF rd.eks_cluster_region # "" THEN rd.eks_cluster_region ELSE rd.aws_region

EKSClusterConfigOf(name, region, endpoint, ca, profile) ==
    [ClusterName |-> name, Region |-> region, Endpoint |-> endpoint, CA |-> ca,
     AWSProfile |-> profile]

NoClusterConfig == EKSClusterConfigOf("", "", "", "", "")

\* what the AWS session and DescribeCluster answer: no session, an error
\* of the call, no cluster in the response, or a cluster whose endpoint and
\* CA data are each absent, empty or present
FieldStates == {"nil", "empty", "set"}

ApiReplies ==
    {[session |-> FALSE, err |-> FALSE, cluster |-> FALSE, endpoint |-> "nil", ca |-> "nil"],
     [session |-> TRUE, err |-> TRUE, cluster |-> FALSE, endpoint |-> "nil", ca |-> "nil"],
     [session |-> TRUE, err |-> FALSE, cluster |-> FALSE, endpoint |-> "nil", ca |-> "nil"]}
    \cup {[session |-> TRUE, err |-> FALSE, cluster |-> TRUE, endpoint |-> e, ca |-> c] :
            e \in FieldStates, c \in FieldStates}

\* *cluster.Endpoint and *cluster.CertificateAuthority.Data of a reply
EndpointOf(reply) == IF reply.endpoint = "set" THEN "https://ABC123.eks.amazonaws.com" ELSE ""
CAOf(reply) == IF reply.ca = "set" THEN "Q0E=" ELSE ""

\* fmt.Errorf: what the message says and the cluster it names
ApiErr(what) == [type |-> "error", code |-> 0, what |-> what, cluster |-> ""]
ClusterErr(what, clusterName) ==
    [type |-> "error", code |-> 0, what |-> what, cluster |-> clusterName]

NoCredential(err) == [isNil |-> TRUE, config |-> NoClusterConfig, err |-> err]

fetchEKSClusterInfoWithoutCACheck(reply, clusterName, region) ==
    IF ~reply.session THEN NoCredential(ApiErr("AWS session is nil"))
    ELSE IF reply.err THEN NoCredential(ClusterErr("describing EKS cluster", clusterName))
    ELSE IF ~reply.cluster THEN NoCredential(ClusterErr("not found", clusterName))
    ELSE IF reply.endpoint # "set" THEN NoCredential(ClusterErr("has no endpoint", clusterName))
    ELSE [isNil |-> FALSE,
          config |-> EKSClusterConfigOf(clusterName, region, EndpointOf(reply), CAOf(reply), ""),
          err |-> NilErr]

\* fetchEKSClusterInfo
fetchEKSClusterInfo(reply, clusterName, region) ==
    IF ~reply.session THEN NoCredential(ApiErr("AWS session is nil"))
    ELSE IF reply.err THEN NoCredential(ClusterErr("describing EKS cluster", clusterName))
    ELSE IF ~reply.cluster THEN NoCredential(ClusterErr("not found", clusterName))
    ELSE IF reply.endpoint # "set" THEN NoCredential(ClusterErr("has no endpoint", clusterName))
    ELSE IF reply.ca # "set"
         THEN NoCredential(ClusterErr("has no certificate authority data", clusterName))
    ELSE [isNil |-> FALSE,
          config |-> EKSClusterConfigOf(clusterName, region, EndpointOf(reply), CAOf(reply), ""),
          err |-> NilErr]

execArgsAlwaysRegion(config) ==
    <<"eks", "get-token", "--cluster-name", config.ClusterName, "--region", config.Region>>

\* the exec args for aws eks get-token
execArgs(config) ==
    <<"eks", "get-token", "--cluster-name", config.ClusterName>>
    \o (IF config.Region # "" THEN <<"--region", config.Region>> ELSE <<>>)

execEnvVarsAlwaysProfile(config) ==
    <<[Name |-> "AWS_PROFILE", Value |-> config.AWSProfile]>>

\* the exec env vars
execEnvVars(config) ==
    IF config.AWSProfile # ""
    THEN <<[Name |-> "AWS_PROFILE", Value |-> config.AWSProfile]>>
    ELSE <<>>

\* the KubeconfigData structure
KubeconfigDataOf(config) ==
    [APIVersion |-> "v1", Kind |-> "Config",
     Clusters |-> <<[Name |-> config.ClusterName,
                     Cluster |-> [Server |-> config.Endpoint,
                                  CertificateAuthorityData |-> config.CA]]>>,
     Contexts |-> <<[Name |-> config.ClusterName,
                     Context |-> [Cluster |-> config.ClusterName,
                                  User |-> config.ClusterName]]>>,
     CurrentContext |-> config.ClusterName,
     Users |-> <<[Name |-> config.ClusterName,
                  User |-> [Exec |-> [APIVersion |-> "client.authentication.k8s.io/v1beta1",
                                      Command |-> "aws",
                                      Args |-> execArgs(config),
                                      Env |-> execEnvVars(config)]]]>>]

\* yaml.Marshal of an ExecConfig: keys by the yaml tags, env omitted when empty
MarshalExec(e) ==
    [apiVersion |-> e.APIVersion, command |-> e.Command, args |-> e.Args]
    @@ (IF e.Env = <<>> THEN EmptyMap
        ELSE [x \in {"env"} |-> [i \in 1..Len(e.Env) |->
                                    [name |-> e.Env[i].Name, value |-> e.Env[i].Value]]])

\* yaml.Marshal of a KubeconfigData: the document as a tree of mappings and lists
Marshal(kd) ==
    [x \in {"current-context"} |-> kd.CurrentContext]
    @@ [apiVersion |-> kd.APIVersion, kind |-> kd.Kind,
        clusters |-> [i \in 1..Len(kd.Clusters) |->
            [name |-> kd.Clusters[i].Name,
             cluster |-> [x \in {"certificate-authority-data"} |->
                              kd.Clusters[i].Cluster.CertificateAuthorityData]
                         @@ [server |-> kd.Clusters[i].Cluster.Server]]],
        contexts |-> [i \in 1..Len(kd.Contexts) |->
            [name |-> kd.Contexts[i].Name,
             context |-> [cluster |-> kd.Contexts[i].Context.Cluster,
                          user |-> kd.Contexts[i].Context.User]]],
        users |-> [i \in 1..Len(kd.Users) |->
            [name |-> kd.Users[i].Name,
             user |-> [exec |-> MarshalExec(kd.Users[i].User.Exec)]]]]

\* generateKubeconfigYAML
generateKubeconfigYAML(config) == [yaml |-> Marshal(KubeconfigDataOf(config)), err |-> NilErr]

\* rand.Read and hex.EncodeToString: a suffix, or no random bytes
RandomSuffixes == {"0a1b2c3d", "deadbeef"}
RandomDraws == RandomSuffixes \cup {"error"}

TempDir == "/tmp"

\* writeTemporaryKubeconfig
writeTemporaryKubeconfig(kubeconfigYAML, workingDir, clusterName, draw, writeOk, fsys) ==
    IF draw = "error"
    THEN [path |-> "", err |-> ApiErr("generating random suffix"), files |-> fsys]
    ELSE LET dir == IF workingDir = "" \/ workingDir = "." THEN TempDir ELSE workingDir
             filePath == Join(dir, ".terraform-helmfile-kubeconfig-" \o clusterName
                                   \o "-" \o draw)
         IN IF writeOk
            THEN [path |-> filePath, err |-> NilErr,
                  files |-> WriteFile(fsys, filePath, kubeconfigYAML)]
            ELSE [path |-> "", err |-> ApiErr("writing kubeconfig"), files |-> fsys]

\* os.Remove: what can happen to a path
RemoveOutcomes(fsys, path) == IF path \in DOMAIN fsys THEN {"removed", "denied"} ELSE {"notexist"}

cleanupKubeconfigAbsenceIsError(path, outcome, fsys) ==
    IF path = "" THEN [err |-> NilErr, files |-> fsys, removeCalled |-> FALSE]
    ELSE CASE outcome = "removed" ->
                [err |-> NilErr, files |-> [x \in DOMAIN fsys \ {path} |-> fsys[x]],
                 removeCalled |-> TRUE]
           [] OTHER -> [err |-> IOErr, files |-> fsys, removeCalled |-> TRUE]

\* cleanupKubeconfig: the empty path is skipped, absence is no error, any
\* other failure of os.Remove is logged and returned
cleanupKubeconfig(path, outcome, fsys) ==
    IF path = "" THEN [err |-> NilErr, files |-> fsys, removeCalled |-> FALSE]
    ELSE CASE outcome = "removed" ->
                [err |-> NilErr, files |-> [x \in DOMAIN fsys \ {path} |-> fsys[x]],
                 removeCalled |-> TRUE]
           [] outcome = "notexist" -> [err |-> NilErr, files |-> fsys, removeCalled |-> TRUE]
           [] OTHER -> [err |-> IOErr, files |-> fsys, removeCalled |-> TRUE]

NoCleanup ==
    [called |-> FALSE, path |-> "", outcome |-> "none", err |-> NilErr, before |-> EmptyMap,
     after |-> EmptyMap]

NoKube ==
    [phase |-> "none", rd |-> CHOOSE rd \in ResourceData : \A f \in DOMAIN rd : rd[f] = "",
     err |-> NilErr, discovery |-> FALSE, writeTried |-> FALSE,
     reply |-> CHOOSE r \in ApiReplies : ~r.session, fetched |-> NoCredential(NilErr),
     config |-> NoClusterConfig, yaml |-> EmptyMap,
     Kubeconfig |-> "", GeneratedKubeconfig |-> "",
     prev |-> NoCleanup, last |-> NoCleanup, deleteErr |-> NilErr,
     d |-> CHOOSE rd \in ResourceData : \A f \in DOMAIN rd : rd[f] = "",
     conf |-> CHOOSE rd \in ResourceData : \A f \in DOMAIN rd : rd[f] = "",
     made |-> {}, op |-> "none", removal |-> "none"]

ManualClusterInfoNever(rd) == FALSE

\* manualEndpoint != "" && manualCA != "": the cluster's details are given by hand
ManualClusterInfo(rd) == rd.eks_cluster_endpoint # "" /\ rd.eks_cluster_ca # ""

\* d.Set(KeyEKSClusterEndpoint, ...) and d.Set(KeyEKSClusterCA, ...): the fetched
\* details are stored back into the resource data
SetFetched(rd, config) ==
    [rd EXCEPT !.eks_cluster_endpoint = config.Endpoint, !.eks_cluster_ca = config.CA]

\* NewReleaseSet(d): validation, then for a cluster name without kubeconfig the
\* cluster's details (given by hand or fetched), the document and its file; the
\* fetched details and the file's path are stored back into d.  k is the record
\* the call is remembered in, fsys the disk before the call.
newReleaseSet(k, fsys, rd, reply, draw, writeOk) ==
    LET failed(e, disc, wr) ==
            [k EXCEPT !.phase = "failed", !.rd = rd, !.err = e, !.d = rd,
                      !.discovery = disc, !.writeTried = wr]
        region == getEKSRegion(rd)
        manual == ManualClusterInfo(rd)
        fetched == fetchEKSClusterInfo(reply, rd.eks_cluster_name, region)
        clusterConfig ==
            IF manual
            THEN EKSClusterConfigOf(rd.eks_cluster_name, region, rd.eks_cluster_endpoint,
                                    rd.eks_cluster_ca, rd.aws_profile)
            ELSE fetched.config
        stored == IF manual THEN rd ELSE SetFetched(rd, clusterConfig)
        gen == generateKubeconfigYAML(clusterConfig)
        wrote == writeTemporaryKubeconfig(gen.yaml, rd.working_directory,
                                          rd.eks_cluster_name, draw, writeOk, fsys)
    IN IF ~IsNil(validateKubeconfigOrEKS(rd))
       THEN [eks |-> failed(validateKubeconfigOrEKS(rd), FALSE, FALSE), files |-> fsys]
       ELSE IF ~IsNil(validateEKSConfiguration(rd))
       THEN [eks |-> failed(validateEKSConfiguration(rd), FALSE, FALSE), files |-> fsys]
       ELSE IF ~(rd.eks_cluster_name # "" /\ rd.kubeconfig = "")
       THEN [eks |-> [k EXCEPT !.phase = "built", !.rd = rd, !.d = rd,
                               !.Kubeconfig = rd.kubeconfig],
             files |-> fsys]
       ELSE IF ~manual /\ ~IsNil(fetched.err)
       THEN [eks |-> [failed(fetched.err, TRUE, FALSE)
                         EXCEPT !.reply = reply, !.fetched = fetched],
             files |-> fsys]
       ELSE IF ~IsNil(wrote.err)
       THEN [eks |-> [failed(wrote.err, ~manual, draw # "error")
                         EXCEPT !.config = clusterConfig, !.yaml = gen.yaml, !.d = stored,
                                !.reply = IF manual THEN k.reply ELSE reply,
                                !.fetched = IF manual THEN k.fetched ELSE fetched],
             files |-> wrote.files]
       ELSE [eks |-> [k EXCEPT !.phase = "built", !.rd = rd, !.discovery = ~manual,
                               !.writeTried = TRUE, !.config = clusterConfig,
                               !.yaml = gen.yaml, !.Kubeconfig = wrote.path,
                               !.GeneratedKubeconfig = wrote.path,
                               !.d = [stored EXCEPT !.kubeconfig = wrote.path],
                               !.made = k.made \cup {wrote.path},
                               !.reply = IF manual THEN k.reply ELSE reply,
                               !.fetched = IF manual THEN k.fetched ELSE fetched],
             files |-> wrote.files]

\* NewReleaseSet called on resource data of the caller's own
NewReleaseSet(rd, reply, draw, writeOk) ==
    /\ eks.phase = "none"
    /\ LET r == newReleaseSet(eks, files, rd, reply, draw, writeOk)
       IN eks' = r.eks /\ files' = r.files
    /\ UNCHANGED <<env, g, b, d, w, dbg, cmp, cap>>

\* an EKSClusterConfig of the caller's own
EKSClusterConfigs ==
    {EKSClusterConfigOf(n, r, "https://ABC123.eks.amazonaws.com", "Q0E=", p) :
        n \in {"test-cluster", "prod-cluster"}, r \in {"", "us-west-2"},
        p \in {"", "my-profile"}}

\* generateKubeconfigYAML called on its own
Generate(config) ==
    /\ eks.phase = "none"
    /\ eks' = [eks EXCEPT !.phase = "generated", !.config = config,
                          !.yaml = generateKubeconfigYAML(config).yaml]
    /\ UNCHANGED <<env, g, b, d, files, w, dbg, cmp, cap>>

\* the paths cleanup is called on: none, the generated file, a file that never was
CleanupPaths == {"", eks.GeneratedKubeconfig, "/tmp/non-existent-file-12345"}

\* cleanupKubeconfig(path)
Cleanup(path, outcome) ==
    /\ eks.phase = "built"
    /\ ~eks.prev.called
    /\ LET r == cleanupKubeconfig(path, outcome, files)
       IN /\ files' = r.files
          /\ eks' = [eks EXCEPT !.prev = eks.last,
                                !.last = [called |-> TRUE, path |-> path,
                                          outcome |-> IF r.removeCalled THEN outcome ELSE "none",
                                          err |-> r.err, before |-> files, after |-> r.files]]
    /\ UNCHANGED <<env, g, b, d, w, dbg, cmp, cap>>

CleanupAny == \E path \in CleanupPaths : \E o \in RemoveOutcomes(files, path) : Cleanup(path, o)

\* DeleteReleaseSet: a cleanup failure is logged and the delete succeeds
DeleteReleaseSet(outcome) ==
    /\ eks.phase = "built"
    /\ LET r == IF eks.GeneratedKubeconfig # ""
                THEN cleanupKubeconfig(eks.GeneratedKubeconfig, outcome, files)
                ELSE [err |-> NilErr, files |-> files, removeCalled |-> FALSE]
       IN /\ files' = r.files
          /\ eks' = [eks EXCEPT !.phase = "deleted", !.deleteErr = NilErr]
    /\ UNCHANGED <<env, g, b, d, w, dbg, cmp, cap>>

DeleteAny == \E o \in RemoveOutcomes(files, eks.GeneratedKubeconfig) : DeleteReleaseSet(o)

\* the resource is gone from the state: what it left on disk is swept
ForgetReleaseSet ==
    /\ eks.phase \in {"failed", "deleted", "generated"}
    /\ eks' = NoKube
    /\ files' = EmptyMap
    /\ UNCHANGED <<env, g, b, d, w, dbg, cmp, cap>>

\* the file behind the kubeconfig path a caller configures
UserFiles == [p \in {"/path/to/kubeconfig"} |-> "user kubeconfig"]

\* os.Remove on a path: nothing there, refused, or removed
RemoveOutcome(fsys, path, denied) ==
    IF path \notin DOMAIN fsys THEN "notexist" ELSE IF denied THEN "denied" ELSE "removed"

deleteReleaseSetCleaningKubeconfig(fs, denied, fsys) ==
    IF fs.Kubeconfig # ""
    THEN LET outcome == RemoveOutcome(fsys, fs.Kubeconfig, denied)
         IN [err |-> NilErr, removal |-> outcome,
             files |-> cleanupKubeconfig(fs.Kubeconfig, outcome, fsys).files]
    ELSE [err |-> NilErr, removal |-> "none", files |-> fsys]

\* DeleteReleaseSet(ctx, fs, d, executor): the generated kubeconfig, if fs records
\* one, is cleaned up; a cleanup failure is logged and the delete returns nil
deleteReleaseSet(fs, denied, fsys) ==
    IF fs.GeneratedKubeconfig # ""
    THEN LET outcome == RemoveOutcome(fsys, fs.GeneratedKubeconfig, denied)
         IN [err |-> NilErr, removal |-> outcome,
             files |-> cleanupKubeconfig(fs.GeneratedKubeconfig, outcome, fsys).files]
    ELSE [err |-> NilErr, removal |-> "none", files |-> fsys]

\* the record one operation on a resource starts from: the configured data and
\* what the resource has generated so far are carried along
OperationStart == [NoKube EXCEPT !.conf = eks.conf, !.made = eks.made]

\* the resource data a resource is configured with
ConfiguredResourceData ==
    {rd \in ResourceData :
        /\ rd.eks_cluster_region = "us-west-2" /\ rd.aws_region = ""
        /\ rd.working_directory = ""
        /\ (rd.eks_cluster_endpoint = "") = (rd.eks_cluster_ca = "")}

\* the resource data an operation is handed: the configured values, with or
\* without the values the operation before stored back
ResourceDataSeen == {eks.conf, eks.d}

\* NewReleaseSet generates a kubeconfig for this resource data
Generates(rd) == rd.eks_cluster_name # "" /\ rd.kubeconfig = ""

\* what the describe call may answer, where NewReleaseSet makes it
RepliesFor(rd) ==
    IF Generates(rd) /\ ~ManualClusterInfo(rd)
    THEN {r \in ApiReplies : r.session /\ ~r.err /\ r.endpoint = "set" /\ r.ca = "set"}
    ELSE {NoKube.reply}

\* the random suffix and the fate of the write, where NewReleaseSet gets there
DrawsFor(rd) == IF Generates(rd) THEN RandomDraws \X BOOLEAN ELSE {<<"error", FALSE>>}

\* create: the ReleaseSet is built from the configured resource data
CreateResource(rd, reply, draw, writeOk) ==
    /\ eks.phase = "none"
    /\ LET r == newReleaseSet(OperationStart, files, rd, reply, draw, writeOk)
       IN eks' = [r.eks EXCEPT !.op = "create", !.conf = rd] /\ files' = r.files
    /\ UNCHANGED <<env, g, b, d, w, dbg, cmp, cap>>

\* read, diff, update: each builds its ReleaseSet anew from the resource data;
\* the resource stays when the operation fails
OperateResource(rd, reply, draw, writeOk) ==
    /\ eks.phase = "built"
    /\ LET r == newReleaseSet(OperationStart, files, rd, reply, draw, writeOk)
       IN /\ eks' = [r.eks EXCEPT !.phase = "built", !.op = "operate"]
          /\ files' = r.files
    /\ UNCHANGED <<env, g, b, d, w, dbg, cmp, cap>>

\* delete: the ReleaseSet is built anew and handed to DeleteReleaseSet
DeleteResource(rd, reply, draw, writeOk, denied) ==
    /\ eks.phase = "built"
    /\ LET r == newReleaseSet(OperationStart, files, rd, reply, draw, writeOk)
           del == deleteReleaseSet(r.eks, denied, r.files)
       IN IF r.eks.phase = "failed"
          THEN eks' = [r.eks EXCEPT !.phase = "built", !.op = "delete"] /\ files' = r.files
          ELSE /\ eks' = [r.eks EXCEPT !.phase = "deleted", !.deleteErr = del.err,
                                       !.op = "delete", !.removal = del.removal]
               /\ files' = del.files
    /\ UNCHANGED <<env, g, b, d, w, dbg, cmp, cap>>

\* the resource is gone from the state; the disk is as the caller set it up
ForgetResource ==
    /\ eks.phase \in {"failed", "deleted"}
    /\ eks' = NoKube
    /\ files' = UserFiles
    /\ UNCHANGED <<env, g, b, d, w, dbg, cmp, cap>>

-----------------------------------------------------------------------------
(* LibraryExecutor.Apply: the debug output *)

\* output is a sequence of pieces: a byte of a variable's value, or a fixed
\* text none of whose characters is such a byte
Lit(s) == [lit |-> s]
Byte(n) == [byte |-> n]

\* a variable's values: byte strings of every length up to the bound, no
\* byte twice, and none shared between values that start at different bases
ValuesFrom(base) == {[i \in 1..n |-> Byte(base + i)] : n \in 0..MaxSecretLen}

\* awsVars of Apply
awsVars ==
    <<"AWS_PROFILE", "AWS_REGION", "AWS_ACCESS_KEY_ID", "AWS_SECRET_ACCESS_KEY",
      "AWS_SESSION_TOKEN", "HOME", "AWS_CONFIG_FILE", "AWS_SHARED_CREDENTIALS_FILE">>

SensitiveVars == {"AWS_SECRET_ACCESS_KEY", "AWS_SESSION_TOKEN"}

\* the process environment: each sensitive variable absent or set
DebugEnvs ==
    UNION {{[k \in S |-> IF k = "AWS_SECRET_ACCESS_KEY" THEN key ELSE token] :
               key \in ValuesFrom(0), token \in ValuesFrom(50)} :
           S \in SUBSET SensitiveVars}

\* opts.EnvironmentVariables: empty, or the secret key as a string or as an int
DebugEnvironmentVariables ==
    UNION {[S -> {Str(v) : v \in ValuesFrom(100)} \cup {NonStr}] :
              S \in {{}, {"AWS_SECRET_ACCESS_KEY"}}}

\* val[:4] + "***" + val[len(val)-4:] for more than four bytes, "***" otherwise
Mask(val) ==
    IF Len(val) > 4
    THEN SubSeq(val, 1, 4) \o <<Lit("***")>> \o SubSeq(val, Len(val) - 3, Len(val))
    ELSE <<Lit("***")>>

\* one line of the listing: "  KEY=value\n", the value masked for the two
\* sensitive names, or "  KEY=(not set)\n"
DebugLine(e, key) ==
    LET found == LookupEnv(e, key)
    IN IF found.exists
       THEN <<Lit("  " \o key \o "=")>>
            \o (IF key \in SensitiveVars THEN Mask(found.val) ELSE found.val)
            \o <<Lit("\n")>>
       ELSE <<Lit("  " \o key \o "=(not set)\n")>>

DebugListing(e) == Flatten([i \in 1..Len(awsVars) |-> DebugLine(e, awsVars[i])])

\* fmt's %v of one map value
FmtValue(value) == IF value.type = "string" THEN value.val ELSE <<Lit(value.val)>>

\* fmt's %v of opts.EnvironmentVariables: map[k:v k:v] in the order of the keys
FmtMap(m) ==
    LET keys == SelectSeq(awsVars, LAMBDA k : k \in DOMAIN m)
    IN <<Lit("map[")>>
       \o Flatten([i \in 1..Len(keys) |->
                      (IF i > 1 THEN <<Lit(" ")>> ELSE <<>>)
                      \o <<Lit(keys[i] \o ":")>> \o FmtValue(m[keys[i]])])
       \o <<Lit("]")>>

\* the process environment once setEnvironmentVariables has run: the
\* configured string values are set over it
EnvironmentSet(e, envVars) ==
    LET set == {k \in DOMAIN envVars : envVars[k].type = "string"}
    IN [k \in DOMAIN e \cup set |-> IF k \in set THEN envVars[k].val ELSE e[k]]

\* debugOutput.String()
debugOutput(e, envVars) ==
    <<Lit("=== PROVIDER DEBUG INFO ===\n"), Lit("AWS Environment BEFORE setting:\n")>>
    \o DebugListing(e)
    \o <<Lit("Environment variables from config: ")>> \o FmtMap(envVars) \o <<Lit("\n")>>
    \o <<Lit("\nAWS Environment AFTER setting:\n")>>
    \o DebugListing(EnvironmentSet(e, envVars))
    \o <<Lit("=== END PROVIDER DEBUG INFO ===\n\n")>>

NoDebug == [called |-> FALSE, envVars |-> EmptyMap, Output |-> <<>>]

\* LibraryExecutor.Apply: Result.Output is the debug output followed by what
\* the tool logged; the deferred restoreEnv leaves the environment as it was
ApplyWithDebug(envVars) ==
    /\ ~dbg.called
    /\ dbg' = [called |-> TRUE, envVars |-> envVars,
               Output |-> debugOutput(env, envVars) \o <<Lit("capture.String()")>>]
    /\ UNCHANGED <<env, g, b, d, files, w, eks, cmp, cap>>

\* the process is started anew with another environment
NewProcess ==
    /\ dbg.called
    /\ env' \in DebugEnvs
    /\ dbg' = NoDebug
    /\ UNCHANGED <<g, b, d, files, w, eks, cmp, cap>>

-----------------------------------------------------------------------------
(* The two executors on one options value *)

\* convertToStringSlice: the strings of the list, every other item dropped
convertToStringSlice(items) ==
    LET strs == SelectSeq(items, LAMBDA v : v.type = "string")
    IN [i \in 1..Len(strs) |-> strs[i].val]

\* convertSelectorsToStrings: the same for the selectors list
convertSelectorsToStrings(selectors) ==
    LET strs == SelectSeq(selectors, LAMBDA v : v.type = "string")
    IN [i \in 1..Len(strs) |-> strs[i].val]

\* the config provider of Apply/Diff/Template/Destroy as the tool reads it
\* through its accessors
ConfigProvider(o, opts) ==
    [FileOrDir |-> opts.FileOrDir,
     HelmBinary |-> opts.HelmBinary,
     Environment |-> opts.Environment,
     Selectors |-> convertSelectorsToStrings(opts.Selectors),
     StateValuesFiles |-> convertToStringSlice(opts.ValuesFiles),
     Set |-> <<>>,
     Concurrency |-> opts.Concurrency]

\* the options both executors are called with
CompareOptions ==
    {[s EXCEPT !.Selector = sel, !.Selectors = sels, !.ValuesFiles = vf,
               !.ReleasesValues = rv] :
        s \in {ZeroOptions, FullOptions},
        sel \in {EmptyMap, [k \in {"tier"} |-> Str("frontend")]},
        sels \in {<<>>, <<Str("app=web")>>, <<Str("app=web"), NonStr>>},
        vf \in {<<>>, <<Str("/w/temp.values-1.yaml")>>, <<NonStr>>},
        rv \in {EmptyMap, [k \in {"myapp.replicas"} |-> Str("3")]}}

NoCompare ==
    [called |-> FALSE, op |-> "none", opts |-> ZeroOptions, args |-> <<>>,
     handed |-> FALSE, config |-> ConfigProvider("none", ZeroOptions),
     bin |-> NoReturn, lib |-> NoReturn]

\* one operation run by the BinaryExecutor and by the LibraryExecutor on the
\* same options, the tool ending the same way under both
CallBoth(o, opts) ==
    /\ ~cmp.called
    /\ \E co \in CmdOutcomes(o, opts.DetailedExitcode),
          ao \in AppOutcomes(o, opts.DetailedExitcode) :
          /\ co.cause = ao.cause
          /\ cmp' = [called |-> TRUE, op |-> o, opts |-> opts,
                     args |-> BinaryArgs(o, opts),
                     handed |-> o \in LibraryOps,
                     config |-> IF o \in LibraryOps THEN ConfigProvider(o, opts)
                                ELSE NoCompare.config,
                     bin |-> BinaryResult(co.err),
                     lib |-> IF o \in LibraryOps THEN LibraryResult(ao.err)
                             ELSE LibraryBuildResult]
    /\ UNCHANGED <<env, g, b, d, files, w, eks, dbg, cap>>

\* the results are dropped
ForgetBoth ==
    /\ cmp.called
    /\ cmp' = NoCompare
    /\ UNCHANGED <<env, g, b, d, files, w, eks, dbg, cap>>


-----------------------------------------------------------------------------
(* OutputCapture: Write, String and Reset from several goroutines *)

\* what the loggers write: whole log lines, as bytes
Payloads == {<<"a", "b">>, <<"c">>}

CaptureOps == {"Write", "String", "Reset"}

\* a goroutine outside any call on the capture
Outside == [pc |-> "idle", op |-> "none", p |-> <<>>, n |-> 0, ret |-> <<>>, at |-> <<>>]

\* NewOutputCapture(): an empty buffer, the mutex free.  order is the sequence
\* of payloads of the Writes that took the mutex since the last Reset did.
NoCapture ==
    [mutex |-> 0, buffer |-> <<>>, order |-> <<>>, t |-> [q \in Procs |-> Outside]]

\* the bytes the buffer holds and the Writes under way will still add
Pending(c) ==
    LET RECURSIVE Sum(_)
        Sum(S) == IF S = {} THEN 0
                  ELSE LET q == CHOOSE x \in S : TRUE
                       IN Len(c.t[q].p) - c.t[q].n + Sum(S \ {q})
    IN Len(c.buffer) + Sum({q \in Procs : c.t[q].pc = "body" /\ c.t[q].op = "Write"})

LockNeverWaits(c) == TRUE

\* o.mutex.Lock() returns: the mutex is free
Lock(c) == c.mutex = 0

\* Write(p), String() or Reset() is called and o.mutex.Lock() has returned
Enter(q, op, payload) ==
    /\ cap.t[q].pc = "idle"
    /\ Lock(cap)
    /\ op = "Write" => Pending(cap) + Len(payload) <= MaxCaptured
    /\ op # "Write" => payload = <<>>
    /\ cap' = [cap EXCEPT !.mutex = q,
                          !.order = CASE op = "Write" -> Append(@, payload)
                                      [] op = "Reset" -> <<>>
                                      [] OTHER -> @,
                          !.t[q] = [Outside EXCEPT !.pc = "body", !.op = op, !.p = payload,
                                                   !.at = IF op = "String" THEN cap.order
                                                          ELSE <<>>]]
    /\ UNCHANGED <<env, g, b, d, files, w, eks, dbg, cmp>>

\* o.buffer.Write(p): the bytes of p are copied to the end of the buffer, one
\* after the other
WriteByte(q) ==
    /\ cap.t[q].pc = "body" /\ cap.t[q].op = "Write"
    /\ cap.t[q].n < Len(cap.t[q].p)
    /\ cap' = [cap EXCEPT !.buffer = Append(@, cap.t[q].p[cap.t[q].n + 1]),
                          !.t[q].n = @ + 1]
    /\ UNCHANGED <<env, g, b, d, files, w, eks, dbg, cmp>>

\* o.buffer.String(): the bytes the buffer holds
ReadString(q) ==
    /\ cap.t[q].pc = "body" /\ cap.t[q].op = "String"
    /\ cap' = [cap EXCEPT !.t[q].pc = "unlock", !.t[q].ret = cap.buffer]
    /\ UNCHANGED <<env, g, b, d, files, w, eks, dbg, cmp>>

\* o.buffer.Reset()
ResetBuffer(q) ==
    /\ cap.t[q].pc = "body" /\ cap.t[q].op = "Reset"
    /\ cap' = [cap EXCEPT !.t[q].pc = "unlock", !.buffer = <<>>]
    /\ UNCHANGED <<env, g, b, d, files, w, eks, dbg, cmp>>

\* the deferred o.mutex.Unlock(), after the last byte of a Write or after the
\* body of String and Reset
Unlock(q) ==
    /\ \/ cap.t[q].pc = "unlock"
       \/ cap.t[q].pc = "body" /\ cap.t[q].op = "Write" /\ cap.t[q].n = Len(cap.t[q].p)
    /\ cap' = [cap EXCEPT !.mutex = 0, !.t[q].pc = "done"]
    /\ UNCHANGED <<env, g, b, d, files, w, eks, dbg, cmp>>

\* the caller has its result
Leave(q) ==
    /\ cap.t[q].pc = "done"
    /\ cap' = [cap EXCEPT !.t[q] = Outside]
    /\ UNCHANGED <<env, g, b, d, files, w, eks, dbg, cmp>>

-----------------------------------------------------------------------------
(* Specifications *)

Init ==
    /\ env \in ParentEnvs
    /\ g = [p \in Procs |-> Idle]
    /\ b = NoCall
    /\ d = NoDiff
    /\ files = EmptyMap
    /\ w = NoWork
    /\ eks = NoKube
    /\ dbg = NoDebug
    /\ cmp = NoCompare
    /\ cap = NoCapture

\* executor operations one after the other: an operation of either variant
\* starts only when no other is under way
SerialBegin(p) == Alone(p) /\ ~b.called /\ LibraryBegin(p)
SerialBuild(p) == Alone(p) /\ ~b.called /\ LibraryBuild(p)
SerialBinaryDirect == (\A p \in Procs : g[p].pc = "idle") /\ BinaryDirect
SerialBinaryFromReleaseSet == (\A p \in Procs : g[p].pc = "idle") /\ BinaryFromReleaseSet

Next ==
    \/ \E p \in Procs : SerialBegin(p)
    \/ \E p \in Procs : SerialBuild(p)
    \/ \E p \in Procs : LibraryStep(p)
    \/ SerialBinaryDirect
    \/ SerialBinaryFromReleaseSet
    \/ BinaryForget

Spec == Init /\ [][Next]_vars

\* in-process operations of several goroutines of the one process, as the
\* host controller starts them: nothing orders them
ConcEnvs == {EmptyMap, [k \in {"AWS_PROFILE"} |-> "parent_value"]}
ConcOps == {"Diff"}

InitConc ==
    /\ env \in ConcEnvs
    /\ g = [p \in Procs |-> Idle]
    /\ b = NoCall
    /\ d = NoDiff
    /\ files = EmptyMap
    /\ w = NoWork
    /\ eks = NoKube
    /\ dbg = NoDebug
    /\ cmp = NoCompare
    /\ cap = NoCapture

\* buildDiffOptions: DetailedExitcode is always set
ConcBegin(p) == LibraryBeginWith(p, ConcOps, StringOverrideMaps, {TRUE})

\* each goroutine runs one operation
NextConc ==
    \/ \E p \in Procs : ConcBegin(p)
    \/ \E p \in Procs : LibraryRun(p)

SpecConc == InitConc /\ [][NextConc]_vars

\* diff reconciliation passes
InitDiff ==
    /\ env = EmptyMap
    /\ g = [p \in Procs |-> Idle]
    /\ b = NoCall
    /\ d = NoDiff
    /\ files = EmptyMap
    /\ w = NoWork
    /\ eks = NoKube
    /\ dbg = NoDebug
    /\ cmp = NoCompare
    /\ cap = NoCapture

\* the host controller has read the flags: the DiffState is consumed
Consume ==
    /\ d.ran
    /\ d' = NoDiff
    /\ UNCHANGED <<env, g, b, files, w, eks, dbg, cmp, cap>>

NextDiff ==
    \/ ReconcileAny
    \/ Consume

SpecDiff == InitDiff /\ [][NextDiff]_vars

\* workspace materialization in one working directory
InitWork ==
    /\ env = EmptyMap
    /\ g = [p \in Procs |-> Idle]
    /\ b = NoCall
    /\ d = NoDiff
    /\ files = EmptyMap
    /\ w \in {[NoWork EXCEPT !.dir = dir] : dir \in WorkingDirectories}
    /\ eks = NoKube
    /\ dbg = NoDebug
    /\ cmp = NoCompare
    /\ cap = NoCapture

NextWork ==
    \/ PrepareAny
    \/ PrepareAgain
    \/ FreshWorkspace

SpecWork == InitWork /\ [][NextWork]_vars

\* ReleaseSets built from resource data, their kubeconfig and its cleanup
InitKube ==
    /\ env = EmptyMap
    /\ g = [p \in Procs |-> Idle]
    /\ b = NoCall
    /\ d = NoDiff
    /\ files = EmptyMap
    /\ w = NoWork
    /\ eks = NoKube
    /\ dbg = NoDebug
    /\ cmp = NoCompare
    /\ cap = NoCapture

NextKube ==
    \/ \E rd \in ResourceData, reply \in ApiReplies, draw \in RandomDraws, ok \in BOOLEAN :
          NewReleaseSet(rd, reply, draw, ok)
    \/ \E config \in EKSClusterConfigs : Generate(config)
    \/ CleanupAny
    \/ DeleteAny
    \/ ForgetReleaseSet

SpecKube == InitKube /\ [][NextKube]_vars

\* in-process Apply calls under every environment and configured map
InitDebug ==
    /\ env \in DebugEnvs
    /\ g = [p \in Procs |-> Idle]
    /\ b = NoCall
    /\ d = NoDiff
    /\ files = EmptyMap
    /\ w = NoWork
    /\ eks = NoKube
    /\ dbg = NoDebug
    /\ cmp = NoCompare
    /\ cap = NoCapture

NextDebug ==
    \/ \E envVars \in DebugEnvironmentVariables : ApplyWithDebug(envVars)
    \/ NewProcess

SpecDebug == InitDebug /\ [][NextDebug]_vars

\* both executors on every options value and operation
InitBoth ==
    /\ env = EmptyMap
    /\ g = [p \in Procs |-> Idle]
    /\ b = NoCall
    /\ d = NoDiff
    /\ files = EmptyMap
    /\ w = NoWork
    /\ eks = NoKube
    /\ dbg = NoDebug
    /\ cmp = NoCompare
    /\ cap = NoCapture

NextBoth ==
    \/ \E o \in BinaryOps, opts \in CompareOptions : CallBoth(o, opts)
    \/ ForgetBoth

SpecBoth == InitBoth /\ [][NextBoth]_vars

\* goroutines sharing one OutputCapture
InitCapture ==
    /\ env = EmptyMap
    /\ g = [p \in Procs |-> Idle]
    /\ b = NoCall
    /\ d = NoDiff
    /\ files = EmptyMap
    /\ w = NoWork
    /\ eks = NoKube
    /\ dbg = NoDebug
    /\ cmp = NoCompare
    /\ cap = NoCapture

NextCapture ==
    \E q \in Procs :
        \/ \E payload \in Payloads : Enter(q, "Write", payload)
        \/ Enter(q, "String", <<>>)
        \/ Enter(q, "Reset", <<>>)
        \/ WriteByte(q)
        \/ ReadString(q)
        \/ ResetBuffer(q)
        \/ Unlock(q)
        \/ Leave(q)

SpecCapture == InitCapture /\ [][NextCapture]_vars

\* one resource through create, read, diff, update and delete
InitRes ==
    /\ env = EmptyMap
    /\ g = [p \in Procs |-> Idle]
    /\ b = NoCall
    /\ d = NoDiff
    /\ files = UserFiles
    /\ w = NoWork
    /\ eks = NoKube
    /\ dbg = NoDebug
    /\ cmp = NoCompare
    /\ cap = NoCapture

NextRes ==
    \/ \E rd \in ConfiguredResourceData : \E reply \in RepliesFor(rd), dw \in DrawsFor(rd) :
          CreateResource(rd, reply, dw[1], dw[2])
    \/ \E rd \in ResourceDataSeen : \E reply \in RepliesFor(rd), dw \in DrawsFor(rd) :
          OperateResource(rd, reply, dw[1], dw[2])
    \/ \E rd \in ResourceDataSeen : \E reply \in RepliesFor(rd), dw \in DrawsFor(rd) :
          \E denied \in BOOLEAN : DeleteResource(rd, reply, dw[1], dw[2], denied)
    \/ ForgetResource

SpecRes == InitRes /\ [][NextRes]_vars


-----------------------------------------------------------------------------
(* Diff reconciliation: C1, C2 (under SpecDiff) *)

InputsChanged == d.changed \cap Range(d.inputKeys) # {}
DiffPresent == d.diff # ""
Marked(key) == key \in d.checker.newComputed

\* C1: for every combination of (a tracked input changed) x (diff text
\* non-empty), markDiffOutputs marks diff_output iff a tracked input changed,
\* and marks apply_output iff a tracked input changed or the diff text is
\* non-empty.
C1_TableHolds ==
    d.ran =>
        /\ Marked(KeyDiffOutput) <=> InputsChanged
        /\ Marked(KeyApplyOutput) <=> (InputsChanged \/ DiffPresent)

\* the row of the table that tells the two outputs apart: inputs stable, a
\* diff present, only apply_output marked
C1_Witness ==
    /\ d.ran
    /\ ~InputsChanged
    /\ DiffPresent
    /\ d.changed # {}
    /\ d.checker.newComputed = {KeyApplyOutput}

\* C2: the tracked set is the one supplied: with empty diff text, changes
\* only to fields outside the supplied list mark neither output, and a change
\* to any single field of the supplied list marks both.
C2_TrackedSetIsParameter ==
    (d.ran /\ d.diff = "") =>
        /\ (d.changed \cap Range(d.inputKeys) = {}) => d.checker.newComputed = {}
        /\ \A k \in Range(d.inputKeys) :
              d.changed = {k} => d.checker.newComputed = {KeyDiffOutput, KeyApplyOutput}

\* a field the single-release list tracks and the release-set list does not
\* changes, and the release-set list is the one supplied: nothing is marked
C2_Witness ==
    /\ d.ran
    /\ d.diff = ""
    /\ d.changed = {"KeyChart"}
    /\ d.inputKeys = releaseSetInputKeys
    /\ d.checker.newComputed = {}

-----------------------------------------------------------------------------
(* Environment Scoping: C3 (under Spec), C4, C5 (under SpecConc) *)

\* the variables a call of setEnvironmentVariables touched
Touched(p) == DOMAIN g[p].completeEnvVars

\* C3: once the restoration action has run, every variable the call touched
\* is in its pre-call state: the same value if it was present (an empty value
\* stays present and empty), absent if it was absent; after any sequence of
\* non-overlapping operations, failed tool calls included.
C3_RestoredToPreCallState ==
    \A p \in Procs :
        g[p].pc = "done" =>
            \A k \in Touched(p) : LookupEnv(env, k) = LookupEnv(g[p].preEnv, k)

\* an operation whose tool call failed has returned; it had overridden a
\* variable that was present and empty, which is present and empty again
C3_Witness ==
    \E p \in Procs :
        /\ g[p].pc = "done"
        /\ g[p].cause \in {"business", "transport"}
        /\ g[p].op # "Build"
        /\ \E k \in DOMAIN g[p].envVars :
              /\ g[p].envVars[k] = Str("value1")
              /\ LookupEnv(g[p].preEnv, k) = [exists |-> TRUE, val |-> ""]
              /\ LookupEnv(env, k) = [exists |-> TRUE, val |-> ""]

\* the restoration of p's call is complete
RestoreComplete(p) ==
    \/ g[p].pc = "done"
    \/ g[p].pc = "unset" /\ g[p].idx > Len(g[p].keysToUnset)
    \/ g[p].pc = "restore" /\ g[p].todo = {} /\ g[p].keysToUnset = <<>>

\* p's call has taken its first snapshot and its restore is not complete
InWindow(p) ==
    /\ g[p].pc \in {"set", "setenv", "call", "restore", "unset"}
    /\ DOMAIN g[p].originalValues # {} \/ g[p].keysToUnset # <<>>
    /\ ~RestoreComplete(p)

\* C4: concurrent in-process operations are serialized around the
\* mutate/restore window: no operation's snapshot-and-set begins between
\* another's snapshot and the completion of that other's restore.
C4_WindowsSerialized ==
    \A p, q \in Procs : (p # q) => ~(InWindow(p) /\ InWindow(q))

\* C5: while an operation's tool call runs, every variable of its override
\* map holds the value that operation set.
C5_NoCrossContamination ==
    \A p \in Procs :
        g[p].pc = "call" =>
            \A k \in DOMAIN g[p].envVars :
                g[p].envVars[k].type = "string" =>
                    LookupEnv(env, k) = [exists |-> TRUE, val |-> g[p].envVars[k].val]

-----------------------------------------------------------------------------
(* Result normalisation: C6, C7 (under Spec) *)

\* the calls that have returned, of either variant, with what decided them
Completed ==
    {[variant |-> "library", op |-> g[p].op, detailed |-> g[p].detailed,
      cause |-> g[p].cause, ret |-> g[p].ret] : p \in {q \in Procs : g[q].pc = "done"}}
    \cup (IF b.called
          THEN {[variant |-> "binary", op |-> b.op, detailed |-> b.opts.DetailedExitcode,
                 cause |-> b.cause, ret |-> b.ret]}
          ELSE {})

\* C6: in both variants a diff that ends with the "changes pending" code is
\* no error (no error returned, the code carried in the result), and any
\* other non-zero code is an error.
C6_ChangesPendingIsNotAnError ==
    \A c \in Completed :
        /\ c.cause = "changes" =>
              /\ IsNil(c.ret.err)
              /\ c.ret.result.ExitCode = ChangesPendingCode
        /\ c.cause = "business" => ~IsNil(c.ret.err)

\* what a caller can tell of a Result: its exit code and the kind of its error
Classification(r) == <<r.ExitCode, r.Error.type>>

\* the returns the variant produces for a transport failure of the operation
TransportReturns(c) ==
    IF c.variant = "library"
    THEN {LibraryResult(t.err) : t \in {x \in AppOutcomes(c.op, c.detailed) : x.cause = "transport"}}
    ELSE {BinaryResult(t.err) : t \in {x \in CmdOutcomes(c.op, c.detailed) : x.cause = "transport"}}

\* C7: a business error and a transport error never yield the same exit code
\* and the same error classification.
C7_BusinessAndTransportDistinct ==
    \A c \in Completed :
        c.cause = "business" =>
            \A t \in TransportReturns(c) :
                Classification(t.result) # Classification(c.ret.result)

-----------------------------------------------------------------------------
(* Subprocess variant: C8, C9, C10 (under Spec) *)

ChildEnv == EffectiveEnv(b.cmdEnv)

\* C8: the credential path travels only through KUBECONFIG: no argument of
\* any operation is a kubeconfig flag or the credential path, and whenever a
\* credential path is set the child's KUBECONFIG is that path, whatever the
\* parent or the overlay hold.
C8_CredentialOnlyThroughEnvironment ==
    b.called =>
        /\ \A i \in 1..Len(b.args) :
              /\ b.args[i] # "--kubeconfig"
              /\ b.opts.Kubeconfig # "" => b.args[i] # b.opts.Kubeconfig
        /\ b.opts.Kubeconfig # "" =>
              /\ "KUBECONFIG" \in DOMAIN ChildEnv
              /\ ChildEnv["KUBECONFIG"] = b.opts.Kubeconfig

\* a credential path is set while the parent and the overlay both hold
\* another KUBECONFIG
C8_Witness ==
    /\ b.called
    /\ b.opts.Kubeconfig = "/path/to/kubeconfig"
    /\ "KUBECONFIG" \in DOMAIN b.parent
    /\ "KUBECONFIG" \in DOMAIN b.opts.EnvironmentVariables
    /\ Len(b.args) > 2
    /\ ChildEnv["KUBECONFIG"] = "/path/to/kubeconfig"

\* the ReleaseSet names a credential path and sets KUBECONFIG in its overlay
Conflict(fs) == fs.Kubeconfig # "" /\ "KUBECONFIG" \in DOMAIN fs.EnvironmentVariables

\* C9: a configuration with the credential path set and KUBECONFIG in the
\* overlay fails with a validation error and the tool is not invoked; with
\* the credential path empty, KUBECONFIG in the overlay alone is accepted.
C9_ConflictIsRejected ==
    (b.called /\ b.fromReleaseSet) =>
        /\ Conflict(b.fs) => (b.ret.err = ValidationErr /\ ~b.invoked)
        /\ (b.fs.Kubeconfig = "" /\ "KUBECONFIG" \in DOMAIN b.fs.EnvironmentVariables) =>
              b.ret.err # ValidationErr

-----------------------------------------------------------------------------
(* Workspace materialization: C11, C12, C13 (under SpecWork) *)

Succeeded(c) == c.called /\ IsNil(c.err)

\* the absolute path of the manifest a call returned
ManifestFile(c) == Abs(c.fs.WorkingDirectory, c.path)

\* C11: for identical manifest content, template setting and working
\* directory, two calls of prepareHelmfileFile return the same manifest path,
\* and after each call the file at that path holds exactly the content.
C11_SameContentSamePath ==
    /\ Succeeded(w.last) =>
          /\ ManifestFile(w.last) \in DOMAIN files
          /\ files[ManifestFile(w.last)] = w.last.fs.Content
    /\ (/\ Succeeded(w.prev) /\ Succeeded(w.last)
        /\ w.prev.fs.Content = w.last.fs.Content
        /\ w.prev.fs.EnableGoTemplate = w.last.fs.EnableGoTemplate
        /\ w.prev.fs.WorkingDirectory = w.last.fs.WorkingDirectory)
       => w.prev.path = w.last.path

\* the same manifest was materialized twice, with different value overlays
C11_Witness ==
    /\ Succeeded(w.prev) /\ Succeeded(w.last)
    /\ w.prev.fs.Content = w.last.fs.Content
    /\ w.prev.fs.EnableGoTemplate = w.last.fs.EnableGoTemplate
    /\ w.prev.fs.Values # w.last.fs.Values
    /\ w.prev.path = w.last.path
    /\ files[ManifestFile(w.last)] = w.last.fs.Content

\* every file written by the two calls, as [path, bytes, kind]
AllWrites == Range(w.prev.writes) \cup Range(w.last.writes)

\* the file system as the i-th write of the last call found it
FilesBeforeWrite(i) == WriteAll(w.last.before, SubSeq(w.last.writes, 1, i - 1))

\* C12: within one working directory two manifests with different content,
\* two value overlays with different content, and a manifest and a value
\* overlay never have the same path, and no write replaces a file that
\* holds other content.
C12_DistinctContentDistinctPaths ==
    /\ \A x, y \in AllWrites :
          (x.bytes # y.bytes \/ x.kind # y.kind) => x.path # y.path
    /\ \A i \in 1..Len(w.last.writes) :
          w.last.writes[i].path \in DOMAIN FilesBeforeWrite(i) =>
              FilesBeforeWrite(i)[w.last.writes[i].path] = w.last.writes[i].bytes

\* a manifest and a value overlay of the same content, and a second
\* manifest of other content, lie side by side
C12_Witness ==
    /\ Succeeded(w.prev) /\ Succeeded(w.last)
    /\ w.prev.fs.Content # w.last.fs.Content
    /\ \E x, y \in AllWrites : x.kind = "manifest" /\ y.kind = "values" /\ x.bytes = y.bytes
    /\ \E x, y \in AllWrites : x.kind = "values" /\ y.kind = "values" /\ x.bytes # y.bytes
    /\ Cardinality(DOMAIN files) = 4

RECURSIVE FlagValues(_, _)
\* the values that follow each occurrence of a flag in an argument list
FlagValues(args, flag) ==
    IF Len(args) < 2 THEN <<>>
    ELSE IF Head(args) = flag
         THEN <<args[2]>> \o FlagValues(Tail(Tail(args)), flag)
         ELSE FlagValues(Tail(args), flag)

\* the arguments of the subprocess variant for the prepared ReleaseSet
PreparedArgs(o) == BinaryArgs(o, buildOptions(o, w.last.out, w.last.path))

\* C13: after prepareHelmfileFile the value-file list holds one entry per
\* overlay in input order, before the value files that were there, and the
\* subprocess variant emits its --state-values-file flags in that order.
C13_OverlayOrderKept ==
    Succeeded(w.last) =>
        LET in == w.last.fs
            out == w.last.out
            n == Len(in.Values)
        IN /\ Len(out.ValuesFiles) = n + Len(in.ValuesFiles)
           /\ \A i \in 1..n : out.ValuesFiles[i] = Str(ValuesPath(in, in.Values[i]))
           /\ \A i \in 1..Len(in.ValuesFiles) : out.ValuesFiles[n + i] = in.ValuesFiles[i]
           /\ \A o \in BinaryOps \ {"Build"} :
                 FlagValues(PreparedArgs(o), "--state-values-file")
                     = [i \in 1..Len(out.ValuesFiles) |-> out.ValuesFiles[i].val]

\* two different overlays, the later-sorting one first, and a value file
\* that was there before
C13_Witness ==
    /\ Succeeded(w.last)
    /\ w.last.fs.Values = <<Str("b: 2"), Str("a: 1")>>
    /\ w.last.fs.ValuesFiles = <<Str("base.yaml")>>
    /\ Len(w.last.out.ValuesFiles) = 3
    /\ w.last.out.ValuesFiles[3] = Str("base.yaml")
    /\ Len(FlagValues(PreparedArgs("Apply"), "--state-values-file")) = 3

-----------------------------------------------------------------------------
(* Kubeconfig cleanup: C14, C15 (under SpecKube) *)

\* C14: cleanupKubeconfig on the empty path or on a path that does not
\* exist returns no error; after a cleanup has removed a file, a second
\* cleanup of the same path returns no error and changes nothing.
C14_CleanupIdempotent ==
    /\ (eks.last.called /\ (eks.last.path = "" \/ eks.last.path \notin DOMAIN eks.last.before))
          => IsNil(eks.last.err)
    /\ (/\ eks.prev.called /\ eks.prev.outcome = "removed"
        /\ eks.last.called /\ eks.last.path = eks.prev.path)
          => (IsNil(eks.last.err) /\ eks.last.after = eks.last.before)

\* the generated kubeconfig was removed and cleaned up once more
C14_Witness ==
    /\ eks.prev.called /\ eks.prev.outcome = "removed"
    /\ eks.prev.path = eks.GeneratedKubeconfig
    /\ eks.prev.path \in DOMAIN eks.prev.before
    /\ eks.last.called /\ eks.last.path = eks.prev.path
    /\ eks.last.outcome = "notexist"
    /\ IsNil(eks.last.err)
    /\ files = EmptyMap

\* C15: cleanup never raises: whatever the path and whatever the outcome of
\* the removal, cleanupKubeconfig returns no error to its caller.
C15_CleanupNeverRaises ==
    eks.last.called => IsNil(eks.last.err)

-----------------------------------------------------------------------------
(* Kubeconfig document: C16, C17 (under SpecKube) *)

Generated == eks.yaml # EmptyMap

DocExec == eks.yaml.users[1].user.exec
DocEnv == IF "env" \in DOMAIN DocExec THEN DocExec.env ELSE <<>>

\* C16: the exec args of the generated document are eks, get-token,
\* --cluster-name, <name>, followed by --region, <region> iff the region is
\* non-empty, and nothing else.
C16_ExecArgs ==
    Generated =>
        /\ Len(DocExec.args) = (IF eks.config.Region = "" THEN 4 ELSE 6)
        /\ SubSeq(DocExec.args, 1, 4)
              = <<"eks", "get-token", "--cluster-name", eks.config.ClusterName>>
        /\ eks.config.Region # "" =>
              SubSeq(DocExec.args, 5, 6) = <<"--region", eks.config.Region>>

\* a document for a credential without region
C16_Witness ==
    /\ Generated
    /\ eks.config.Region = ""
    /\ eks.config.ClusterName = "test-cluster"
    /\ DocExec.args = <<"eks", "get-token", "--cluster-name", "test-cluster">>

\* C17: the generated document has one cluster entry, one context and one
\* user, each named by the cluster name, which is also the current context;
\* its exec entry has exactly one environment entry, AWS_PROFILE with the
\* profile, when the profile is non-empty, and no AWS_PROFILE entry otherwise.
C17_DocumentShape ==
    Generated =>
        LET name == eks.config.ClusterName
        IN /\ Len(eks.yaml.clusters) = 1 /\ eks.yaml.clusters[1].name = name
           /\ Len(eks.yaml.contexts) = 1 /\ eks.yaml.contexts[1].name = name
           /\ eks.yaml.contexts[1].context = [cluster |-> name, user |-> name]
           /\ Len(eks.yaml.users) = 1 /\ eks.yaml.users[1].name = name
           /\ eks.yaml["current-context"] = name
           /\ IF eks.config.AWSProfile # ""
              THEN DocEnv = <<[name |-> "AWS_PROFILE", value |-> eks.config.AWSProfile]>>
              ELSE \A i \in 1..Len(DocEnv) : DocEnv[i].name # "AWS_PROFILE"

\* a ReleaseSet built from a hand-given endpoint and CA with a profile: the
\* document written to disk carries the profile
C17_Witness ==
    /\ eks.phase = "built"
    /\ Generated
    /\ eks.config.AWSProfile = "my-profile"
    /\ eks.GeneratedKubeconfig \in DOMAIN files
    /\ files[eks.GeneratedKubeconfig] = eks.yaml
    /\ DocEnv = <<[name |-> "AWS_PROFILE", value |-> "my-profile"]>>

-----------------------------------------------------------------------------
(* Configuration validation: C18, C19, C20 (under SpecKube) *)

\* NewReleaseSet has run on eks.rd
Constructed == eks.phase \in {"built", "failed", "deleted"}

\* the call ended before any discovery call and any file write
EndedBeforeIO == ~eks.discovery /\ ~eks.writeTried /\ files = EmptyMap

OnlyOneOfEndpointAndCA(rd) == (rd.eks_cluster_endpoint # "") # (rd.eks_cluster_ca # "")

ValidationErrors == {ErrMustProvideOne, ErrRegionRequired, ErrProvidedTogether}

\* C19: validation accepts a configuration only if exactly one of the
\* credential path and the cluster reference is supplied.
C19_ExactlyOneSource ==
    (Constructed /\ eks.err \notin ValidationErrors) =>
        (eks.rd.kubeconfig # "") # (eks.rd.eks_cluster_name # "")

-----------------------------------------------------------------------------
(* Region resolution: C21 (under SpecKube) *)

\* a cluster name is given and no credential path
ClusterReferenceOnly(rd) == rd.kubeconfig = "" /\ rd.eks_cluster_name # ""

\* C21: for a cluster reference without credential path, validation fails
\* unless a region resolves; the resolved region is the cluster's own region
\* when that is non-empty, the general region otherwise, and is empty only
\* when both are empty.
C21_RegionResolves ==
    (Constructed /\ ClusterReferenceOnly(eks.rd)) =>
        /\ (eks.rd.eks_cluster_region = "" /\ eks.rd.aws_region = "")
              <=> (eks.phase = "failed" /\ eks.err = ErrRegionRequired)
        /\ Generated =>
              /\ eks.config.Region # ""
              /\ eks.config.Region = (IF eks.rd.eks_cluster_region # ""
                                      THEN eks.rd.eks_cluster_region
                                      ELSE eks.rd.aws_region)

\* both regions are given and the credential is generated for the cluster's own
C21_Witness ==
    /\ eks.phase = "built"
    /\ ClusterReferenceOnly(eks.rd)
    /\ eks.rd.eks_cluster_region = "us-west-2"
    /\ eks.rd.aws_region = "us-east-1"
    /\ Generated
    /\ eks.config.Region = "us-west-2"
    /\ DocExec.args[6] = "us-west-2"

-----------------------------------------------------------------------------
(* Discovery: C22 (under SpecKube) *)

\* the describe response holds a cluster with endpoint and CA data
CompleteReply(r) ==
    r.session /\ ~r.err /\ r.cluster /\ r.endpoint = "set" /\ r.ca = "set"

\* C22: fetchEKSClusterInfo returns a credential only for a response with a
\* cluster that has a non-empty endpoint and non-empty CA data; an absent
\* cluster is a not-found error, an absent or empty endpoint or CA a
\* missing-field error, a failed describe call an error naming the cluster,
\* and every failure returns no credential.
C22_DiscoveryOutcomes ==
    eks.discovery =>
        LET r == eks.reply
            f == eks.fetched
            name == eks.rd.eks_cluster_name
        IN /\ ~f.isNil <=> CompleteReply(r)
           /\ ~f.isNil =>
                 /\ IsNil(f.err)
                 /\ f.config.ClusterName = name
                 /\ f.config.Endpoint # "" /\ f.config.CA # ""
           /\ f.isNil => (~IsNil(f.err) /\ f.config = NoClusterConfig)
           /\ (r.session /\ r.err) =>
                 (f.err.what = "describing EKS cluster" /\ f.err.cluster = name)
           /\ (r.session /\ ~r.err /\ ~r.cluster) =>
                 (f.err.what = "not found" /\ f.err.cluster = name)
           /\ (r.session /\ ~r.err /\ r.cluster /\ (r.endpoint # "set" \/ r.ca # "set")) =>
                 /\ f.err.what \in {"has no endpoint", "has no certificate authority data"}
                 /\ f.err.cluster = name

\* the response held a cluster with an endpoint and empty CA data
C22_Witness ==
    /\ eks.discovery
    /\ eks.phase = "failed"
    /\ eks.reply.cluster /\ eks.reply.endpoint = "set" /\ eks.reply.ca = "empty"
    /\ eks.fetched.isNil
    /\ eks.err = ClusterErr("has no certificate authority data", "my-cluster")
    /\ files = EmptyMap

-----------------------------------------------------------------------------
(* Credential provisioner lifecycle: C23 (under SpecKube) *)

\* the state of the credential provisioner for the resource
ProvisionerState ==
    CASE eks.phase = "failed" -> "Failed"
      [] eks.phase \in {"built", "deleted"} /\ eks.GeneratedKubeconfig # "" ->
            IF eks.GeneratedKubeconfig \in DOMAIN files THEN "Generated" ELSE "CleanedUp"
      [] OTHER -> "NoCredential"

\* endpoint and CA are both supplied with the resource
BothGivenByHand == eks.rd.eks_cluster_endpoint # "" /\ eks.rd.eks_cluster_ca # ""

\* the resource has left the state
Forgotten == eks.phase # "none" /\ eks'.phase = "none"

\* C23: the provisioner goes from NoCredential to Generated and from
\* Generated to CleanedUp and no other way; a credential is generated either
\* after a discovery lookup or, when endpoint and CA are both given by hand,
\* without any lookup and from the values given.
C23_ProvisionerLifecycle ==
    /\ [](ProvisionerState = "Generated" =>
            IF BothGivenByHand
            THEN /\ ~eks.discovery
                 /\ eks.config.Endpoint = eks.rd.eks_cluster_endpoint
                 /\ eks.config.CA = eks.rd.eks_cluster_ca
            ELSE /\ eks.discovery
                 /\ eks.config = eks.fetched.config)
    /\ [][(ProvisionerState' # ProvisionerState /\ ~Forgotten) =>
            <<ProvisionerState, ProvisionerState'>> \in
                {<<"NoCredential", "Generated">>, <<"NoCredential", "Failed">>,
                 <<"Generated", "CleanedUp">>}]_vars

\* a credential generated from an endpoint and CA given by hand, later removed
C23_Witness ==
    /\ ProvisionerState = "CleanedUp"
    /\ BothGivenByHand
    /\ ~eks.discovery
    /\ eks.config.Endpoint = "https://example.eks.amazonaws.com"
    /\ eks.yaml.clusters[1].cluster.server = "https://example.eks.amazonaws.com"

-----------------------------------------------------------------------------
(* C24 *)

\* the resource has been deleted and os.Remove refused nothing
DeletedCleanly == eks.phase = "deleted" /\ eks.removal # "denied"

\* C24: once a resource that went through create, read, diff and update has
\* been deleted without a removal failure, none of the credential files
\* generated for it is left on disk.
C24_NoGeneratedFileLeft ==
    DeletedCleanly => \A p \in eks.made : p \notin DOMAIN files

-----------------------------------------------------------------------------
(* C25 (under SpecDebug) *)

\* the pieces of out hold val as one run
Contains(out, val) ==
    \E i \in 1..(Len(out) + 1 - Len(val)) : SubSeq(out, i, i + Len(val) - 1) = val

\* the non-empty values the sensitive variables have in the process
\* environment and in the configured map of the call
SensitiveValues ==
    {env[k] : k \in DOMAIN env \cap SensitiveVars}
    \cup {dbg.envVars[k].val :
             k \in {x \in DOMAIN dbg.envVars \cap SensitiveVars :
                       dbg.envVars[x].type = "string"}}

\* C25: the output an in-process Apply returns holds none of the values of
\* AWS_SECRET_ACCESS_KEY and AWS_SESSION_TOKEN in full, whatever the value's
\* length and whether it comes from the process environment or from the
\* configured map.
C25_SecretsMasked ==
    dbg.called => \A val \in SensitiveValues : val # <<>> => ~Contains(dbg.Output, val)

-----------------------------------------------------------------------------
(* C26 (under SpecBoth) *)

\* the one value of a flag given at most once, "" when it is not given
FlagValue(args, flag) ==
    IF FlagValues(args, flag) = <<>> THEN "" ELSE FlagValues(args, flag)[1]

\* the tool inputs the subprocess variant passes as flags
PassedAsFlags(args) ==
    [Selectors |-> FlagValues(args, "--selector"),
     StateValuesFiles |-> FlagValues(args, "--state-values-file"),
     Set |-> FlagValues(args, "--set"),
     Environment |-> FlagValue(args, "--environment"),
     Concurrency |-> FlagValue(args, "--concurrency")]

\* the same inputs as the in-process variant hands them over
HandedOver(config) ==
    [Selectors |-> config.Selectors,
     StateValuesFiles |-> config.StateValuesFiles,
     Set |-> config.Set,
     Environment |-> config.Environment,
     Concurrency |-> IF config.Concurrency > 0 THEN Itoa(config.Concurrency) ELSE ""]

\* C26: for every options value and operation the in-process variant hands
\* the tool the selectors (of the selector map and of the selectors list),
\* value files, set-values, environment name and concurrency limit that the
\* subprocess variant passes as flags, and both return a Result or both
\* return none.
C26_SameInputsSameShape ==
    cmp.called =>
        /\ cmp.handed
        /\ HandedOver(cmp.config) = PassedAsFlags(cmp.args)
        /\ cmp.lib.result.isNil = cmp.bin.result.isNil

-----------------------------------------------------------------------------
(* C27 (under SpecKube) *)

\* NewReleaseSet has generated a kubeconfig file for resource data with a profile
GeneratedWithProfile ==
    eks.phase = "built" /\ eks.GeneratedKubeconfig # "" /\ eks.rd.aws_profile # ""

\* C27: whenever a profile is configured and a credential file is generated,
\* the exec entry of the generated document carries AWS_PROFILE set to that
\* profile, whether endpoint and CA were looked up or given by hand.
C27_ProfileInDocument ==
    GeneratedWithProfile =>
        \E i \in 1..Len(DocEnv) :
            DocEnv[i] = [name |-> "AWS_PROFILE", value |-> eks.rd.aws_profile]

-----------------------------------------------------------------------------
(* C28 (under SpecCapture) *)

\* a String call of goroutine q has its result
StringReturned(q) == cap.t[q].pc \in {"unlock", "done"} /\ cap.t[q].op = "String"

\* C28: under every interleaving of Write, String and Reset the result of
\* each String is the whole payloads, in the order their Writes took the
\* mutex, written since the last Reset, and so is the buffer whenever the
\* mutex is free: no payload lost, duplicated or torn.
C28_CaptureLinearizable ==
    /\ \A q \in Procs : StringReturned(q) => cap.t[q].ret = Flatten(cap.t[q].at)
    /\ cap.mutex = 0 => cap.buffer = Flatten(cap.order)

\* a String that returned the payloads of two Writes, and a Write or Reset
\* that has taken the mutex since
C28_Witness ==
    \E q \in Procs :
        /\ StringReturned(q)
        /\ cap.t[q].pc = "done"
        /\ cap.t[q].ret = <<"c", "a", "b">>
        /\ cap.order # cap.t[q].at

-----------------------------------------------------------------------------
(* C29 (under SpecWork) *)

\* the last call was made on the ReleaseSet object of the call before it,
\* which had succeeded
CalledAgainAfterSuccess ==
    /\ w.prev.called /\ IsNil(w.prev.err)
    /\ w.last.called /\ w.last.fs = w.prev.out

\* C29: a successful further call of prepareHelmfileFile on a ReleaseSet one
\* call has already prepared returns the same manifest path and leaves
\* ValuesFiles as the first call left it, and a call that fails leaves Values
\* and ValuesFiles as they were before it.
C29_PrepareIdempotent ==
    /\ (CalledAgainAfterSuccess /\ IsNil(w.last.err)) =>
           /\ w.last.path = w.prev.path
           /\ w.last.out.ValuesFiles = w.prev.out.ValuesFiles
           /\ w.last.out.Values = w.prev.out.Values
    /\ (w.last.called /\ ~IsNil(w.last.err)) =>
           /\ w.last.out.Values = w.last.fs.Values
           /\ w.last.out.ValuesFiles = w.last.fs.ValuesFiles

\* a ReleaseSet with overlay values and an existing values file prepared
\* twice, both times with success
C29_Witness ==
    /\ CalledAgainAfterSuccess /\ IsNil(w.last.err)
    /\ Len(w.prev.fs.Values) = 2
    /\ Len(w.prev.fs.ValuesFiles) = 1
    /\ Len(w.last.out.ValuesFiles) = 3
    /\ w.last.path = w.prev.path

-----------------------------------------------------------------------------
(* C30 *)

\* every file the caller supplied is on disk with its content
UserFilesInPlace == \A p \in DOMAIN UserFiles : p \in DOMAIN files /\ files[p] = UserFiles[p]

\* C30: across any sequence of create, read, diff, update and delete the
\* kubeconfig file the user supplied stays on disk unchanged, and every path
\* that a step takes off the disk is one recorded as generated for the resource.
C30_UserFileNeverRemoved ==
    /\ []UserFilesInPlace
    /\ [][\A p \in DOMAIN files \ DOMAIN files' : p \in eks.made]_vars

\* a resource configured with an explicit kubeconfig path has been deleted and
\* the file is still there
C30_Witness ==
    /\ eks.phase = "deleted"
    /\ eks.conf.kubeconfig = "/path/to/kubeconfig"
    /\ eks.GeneratedKubeconfig = ""
    /\ "/path/to/kubeconfig" \in DOMAIN files

=============================================================================
